---- MODULE Spec2Model ----
(***************************************************************************)
(* GrapeML suitability pipeline of src/code/final1.js.                     *)
(*                                                                         *)
(* GrapeML.analyzeSuitability(region, year) runs synchronously: it builds  *)
(* the environmental factors, the threshold mask, and then calls           *)
(* GrapeML.runMachineLearning, which forces six counts (getInfo) and       *)
(* returns early with {success:false, error, suitabilityMask} when one of  *)
(* them is too small.  The model steps through the function one stage at   *)
(* a time.  Everything Earth Engine answers (counts, the confusion-matrix  *)
(* accuracy, the probability raster, a thrown evaluation error) is an      *)
(* input drawn from a small set.                                           *)
(*                                                                         *)
(* Units: gst is kept in tenths of a degree (14.0 -> 140), probabilities   *)
(* in tenths (0.7 -> 7), so that all values are integers.  An accuracy is  *)
(* a fraction num/den or NaN.                                              *)
(***************************************************************************)
EXTENDS Integers, Sequences, FiniteSets, Bags, TLC

\* ---------------------------------------------------------------- bounds
\* number of pixels of the region's raster
NPix == 2
\* largest vineyard count the point-feature provider answers
MaxVineyards == 10
\* largest realized number of sample points of one class
MaxRealized == 6
\* number of analyses that run side by side
NRuns == 2
\* launches of the grape analysis page and user actions on it
MaxLaunches == 2
MaxClicks == 2
\* regions drawn and clicks on Analyze in the regional comparison
MaxDraws == 2
MaxAnalyses == 1
\* years of the time series chart of updateRegion (2010..2023 in the script)
NYears == 4
\* monthly images of the growing season in the collection
NMonths == 2

Pixels == 1..NPix

\* ------------------------------------------------------ program constants
\* computeSuitabilityMask thresholds (gst in tenths of a degree)
GstMin == 140
GstMax == 160
GddMin == 950
GddMax == 1250
GspMin == 250
GspMax == 600
SlopeMin == 2
SlopeMax == 15
ElevationMin == 5
ElevationMax == 250

\* runMachineLearning gates and sample sizes
MinVineyards == 5
PointsPerVineyard == 10
MaxPositivePoints == 200
MinPositive == 5
NegativeCandidates == 400
MinNegative == 5
MinSamples == 10
MinTraining == 5
MinTesting == 5
\* the seeds of randomPoints (positive, negative) and of smileRandomForest
PositiveSeed == 123
NegativeSeed == 456
ClassifierSeed == 42
\* computeGDD(year, 10, 30): baseTemp and daysPerMonth; tmmx and tmmn are
\* stored in tenths of a degree
BaseTemp == 10
DaysPerMonth == 30
RawPerDegree == 10
\* the split of the random column at 0.7, in tenths
SplitThreshold == 7
\* square metres in a square kilometre: the callers' divide(1e6)
SqMPerSqKm == 1000000
\* highSuitabilityAreas = suitabilityScore.gt(0.7), in tenths
HighThreshold == 7
\* reduceRegion scale in metres; one pixel covers Scale * Scale m^2
Scale == 250
PixelArea == Scale * Scale

\* the error strings of the five early returns
ErrVineyards == "Insufficient vineyard data in the selected region for machine learning prediction"
ErrPositive == "Unable to generate sufficient positive sample points"
ErrNegative == "Unable to generate sufficient negative sample points"
ErrExtraction == "Feature extraction failed, insufficient sample points"
ErrSplit == "Insufficient training or testing set size"
\* error.message of an evaluation error thrown by a getInfo call
ErrorMessage == "Computation timed out."

\* a local variable that has not been assigned yet
NotYet == 0 - 1
\* an object-valued variable that has not been assigned yet
Null == [null |-> TRUE]
\* an image-valued variable that has not been assigned yet
NoImage == << >>

\* the negative-sample return carries the message of the positive-sample return
ReasonCopied(cause) ==
  CASE cause = "vineyards" -> ErrVineyards
    [] cause = "positives" -> ErrPositive
    [] cause = "negatives" -> ErrPositive
    [] cause = "rows" -> ErrExtraction
    [] cause = "training" -> ErrSplit
    [] cause = "testing" -> ErrSplit

\* the vineyard return carries another message
ReasonReworded(cause) ==
  CASE cause = "vineyards" -> "Not enough vineyards"
    [] cause = "positives" -> ErrPositive
    [] cause = "negatives" -> ErrNegative
    [] cause = "rows" -> ErrExtraction
    [] cause = "training" -> ErrSplit
    [] cause = "testing" -> ErrSplit

\* the data-insufficiency causes and the error string each early return carries
Causes == {"vineyards", "positives", "negatives", "rows", "training", "testing"}
Reason(cause) ==
  CASE cause = "vineyards" -> ErrVineyards
    [] cause = "positives" -> ErrPositive
    [] cause = "negatives" -> ErrNegative
    [] cause = "rows" -> ErrExtraction
    [] cause = "training" -> ErrSplit
    [] cause = "testing" -> ErrSplit

\* ------------------------------------------------------------ inputs
Regions == {"Kent"}
Years == {"2023"}

\* factor values of one pixel, as the providers deliver them
SuitablePixel ==
  [gst |-> 150, gdd |-> 1100, gsp |-> 400, slope |-> 5, aspect |-> 180,
   elevation |-> 100, latitude |-> 51]
ColdPixel ==
  [gst |-> 139, gdd |-> 900, gsp |-> 400, slope |-> 5, aspect |-> 90,
   elevation |-> 100, latitude |-> 55]
FactorSamples == {SuitablePixel, ColdPixel}

\* counts the services may answer: around the gate and at the maximum
CountSamples(min, max) ==
  {n \in {0, min - 2, min - 1, min, max} : n >= 0 /\ n <= max}

Min(a, b) == IF a < b THEN a ELSE b

\* ------------------------------------------------------------ numbers
\* an ee.Number that is a fraction, and the NaN the error matrix can give
Number(n, d) == [kind |-> "number", num |-> n, den |-> d]
NaN == [kind |-> "NaN", num |-> 0, den |-> 0]
IsNaN(a) == a.kind = "NaN"
\* ee.Number(a).divide(b) for counts a, b: 0/0 is NaN
Divide(a, b) == IF b = 0 THEN NaN ELSE Number(a, b)

RECURSIVE SumOver(_, _)
SumOver(f, S) ==
  IF S = {} THEN 0
  ELSE LET p == CHOOSE q \in S : TRUE IN f[p] + SumOver(f, S \ {p})

\* ------------------------------------------------------------ state
VARIABLES
  pc,                  \* the statement analyzeSuitability executes next
  region, year,        \* the arguments of analyzeSuitability
  factors,             \* computeEnvironmentalFactors(region, year), per pixel
  suitabilityMask,     \* computeSuitabilityMask(factors), per pixel
  vineyardCount, positivePointCount, actualPositiveCount,
  actualNegativeCount, sampleCount, trainingCount, testingCount,
  validation,          \* the classified test rows
  matrixAccuracy,      \* errorMatrix.accuracy().getInfo()
  accuracy,            \* the accuracy runMachineLearning returns
  mlResults,           \* the value runMachineLearning returns
  result,              \* the value analyzeSuitability returns
  stages,              \* the stages executed so far, in order
  raised,              \* the getInfo call that threw, or "none"
  runs,                \* SpecRuns: the local variables of each analysis
  world,               \* SpecRuns: what the services answer for each region
  call,                \* SpecPure: the function called and its arguments
  ret,                 \* SpecPure: the value it returned
  \* SpecPage: the globals of the grape analysis page
  currentPage, controlPanel, loadingLabel, bgLoadingLabel,
  currentCountyName, currentRegion, regionNamesRaw, suitableNames,
  unsuitableNames, unsuitableGeomsList, finalRegionNames,
  backgroundLoadingInProgress,
  pending,             \* the evaluate requests that have not called back
  selected,            \* the county the user selected last
  lastRead,            \* what the last user-triggered handler read
  visits,              \* per launch, the indices continueLoadingRegions loaded
  finalized,           \* the launches whose chain called finalizeRegionLists
  launches, clicks,    \* launches and user actions so far
  \* SpecCompare: the variables of createModule3
  savedCompareGeometries, areaResults,
  drawn,               \* the geometry on the drawing layer, or 0
  draws,               \* geometries drawn so far
  compareDisabled,     \* the disabled flag of compareButton
  analyses,            \* per click on Analyze, the variables of its closure
  compareChartPanel, compareInfoPanel,
  mapLayers            \* the names of the layers of mapPanel

vars ==
  <<pc, region, year, factors, suitabilityMask, vineyardCount,
    positivePointCount, actualPositiveCount, actualNegativeCount, sampleCount,
    trainingCount, testingCount, validation, matrixAccuracy, accuracy,
    mlResults, result, stages, raised, runs, world, call, ret,
    currentPage, controlPanel, loadingLabel, bgLoadingLabel,
    currentCountyName, currentRegion, regionNamesRaw, suitableNames,
    unsuitableNames, unsuitableGeomsList, finalRegionNames,
    backgroundLoadingInProgress, pending, selected, lastRead, visits,
    finalized, launches, clicks, savedCompareGeometries, areaResults, drawn,
    draws, compareDisabled, analyses, compareChartPanel, compareInfoPanel,
    mapLayers>>

\* the variables of the grape analysis page
page ==
  <<currentPage, controlPanel, loadingLabel, bgLoadingLabel,
    currentCountyName, currentRegion, regionNamesRaw, suitableNames,
    unsuitableNames, unsuitableGeomsList, finalRegionNames,
    backgroundLoadingInProgress, pending, selected, lastRead, visits,
    finalized, launches, clicks>>

\* a controlPanel variable that is still null
NoPanel == [id |-> 0, view |-> "none", widgets |-> {}, buttons |-> {}]

\* the globals as the script declares them, before createHomePage
PageIdle ==
  /\ currentPage = "home"
  /\ controlPanel = NoPanel
  /\ loadingLabel = FALSE /\ bgLoadingLabel = FALSE
  /\ currentCountyName = "Kent" /\ currentRegion = ""
  /\ regionNamesRaw = << >> /\ suitableNames = << >>
  /\ unsuitableNames = << >> /\ unsuitableGeomsList = << >>
  /\ finalRegionNames = << >>
  /\ backgroundLoadingInProgress = FALSE
  /\ pending = EmptyBag
  /\ selected = "" /\ lastRead = [value |-> "", selected |-> ""]
  /\ visits = << >> /\ finalized = {}
  /\ launches = 0 /\ clicks = 0

\* the variables of the regional comparison module
compare ==
  <<savedCompareGeometries, areaResults, drawn, draws, compareDisabled,
    analyses, compareChartPanel, compareInfoPanel, mapLayers>>

\* the layer createModule3 adds to the map
UKLayer == <<"UK Suitable Planting Areas", 0>>

\* the variables of createModule3 as it declares them
CompareIdle ==
  /\ savedCompareGeometries = << >> /\ areaResults = << >>
  /\ drawn = 0 /\ draws = 0
  /\ compareDisabled = TRUE
  /\ analyses = << >>
  /\ compareChartPanel = << >> /\ compareInfoPanel = FALSE
  /\ mapLayers = <<UKLayer>>

\* the variables of the other specifications
aux == <<runs, world, call, ret, page, compare>>
AuxIdle ==
  /\ runs = << >> /\ world = << >> /\ call = Null /\ ret = Null
  /\ PageIdle /\ CompareIdle

counts ==
  <<vineyardCount, positivePointCount, actualPositiveCount,
    actualNegativeCount, sampleCount, trainingCount, testingCount>>

\* ------------------------------------------------------ pure functions
\* the range tests with gt/lt: a value equal to a bound fails
computeSuitabilityMaskStrict(f) ==
  [p \in DOMAIN f |->
     /\ f[p].gst > GstMin /\ f[p].gst < GstMax
     /\ f[p].gdd > GddMin /\ f[p].gdd < GddMax
     /\ f[p].gsp > GspMin /\ f[p].gsp < GspMax
     /\ f[p].slope > SlopeMin /\ f[p].slope < SlopeMax
     /\ f[p].elevation > ElevationMin /\ f[p].elevation < ElevationMax]

\* GrapeML.computeSuitabilityMask: AND of five inclusive range tests
computeSuitabilityMask(f) ==
  [p \in DOMAIN f |->
     /\ f[p].gst >= GstMin /\ f[p].gst <= GstMax
     /\ f[p].gdd >= GddMin /\ f[p].gdd <= GddMax
     /\ f[p].gsp >= GspMin /\ f[p].gsp <= GspMax
     /\ f[p].slope >= SlopeMin /\ f[p].slope <= SlopeMax
     /\ f[p].elevation >= ElevationMin /\ f[p].elevation <= ElevationMax]

\* a failing return that also carries a default accuracy
FailureResultWithAccuracy(reason, mask) ==
  [success |-> FALSE, error |-> reason, suitabilityMask |-> mask,
   accuracy |-> Number(0, 1)]

\* a failing return that hands back nonSuitableArea instead of the mask
FailureResultComplement(reason, mask) ==
  [success |-> FALSE, error |-> reason,
   suitabilityMask |-> [p \in DOMAIN mask |-> ~mask[p]]]

\* the object of the six failing returns of runMachineLearning
FailureResult(reason, mask) ==
  [success |-> FALSE, error |-> reason, suitabilityMask |-> mask]

\* the request without the cap
PositivePointCountUncapped(n) == n * PointsPerVineyard

\* Math.min(vineyardCount * 10, 200)
PositivePointCount(n) == Min(n * PointsPerVineyard, MaxPositivePoints)

\* collection.filter(ee.Filter.eq(property, value)).size() on the classified
\* test rows: the rows whose property equals the literal value; the class
\* labels 0 and 1 are written "0" and "1"
FilterEqSize(v, property, value) ==
  IF property = "class"
  THEN CASE value = "0" -> v.total - v.ones
         [] value = "1" -> v.ones
         [] OTHER -> 0
  ELSE 0

\* the replacement accuracy of the isNaN branch:
\* validation.filter(ee.Filter.eq('class', 'classification')).size() / validation.size()
ManualAccuracy(v) == Divide(FilterEqSize(v, "class", "classification"), v.total)

\* the accuracy is returned as the error matrix gave it, without the isNaN test
AccuracyUnchecked(a, v) == a

\* the accuracy left in the variable after the inner try/catch
AccuracyAfterCheck(a, v) == IF IsNaN(a) THEN ManualAccuracy(v) ELSE a

\* the threshold test with gte: a score of exactly 0.7 is included
HighSuitabilityInclusive(score) ==
  [p \in DOMAIN score |-> IF score[p] >= HighThreshold THEN 1 ELSE 0]

\* suitabilityScore.gt(0.7)
HighSuitability(score) ==
  [p \in DOMAIN score |-> IF score[p] > HighThreshold THEN 1 ELSE 0]

\* highSuitabilityAreas.multiply(pixelArea()).reduceRegion(sum, region)
AreaCalculation(high) ==
  SumOver([p \in DOMAIN high |-> high[p] * PixelArea], DOMAIN high)

\* the object of the successful return of runMachineLearning
SuccessResult(score, acc) ==
  [success |-> TRUE,
   suitabilityScore |-> score,
   highSuitabilityAreas |-> HighSuitability(score),
   area |-> AreaCalculation(HighSuitability(score)),
   accuracy |-> acc,
   importance |-> "classifier.explain()",
   featureImage |-> factors,
   classifier |-> "smileRandomForest(50, 2, 42)",
   sampledPoints |-> sampleCount,
   positiveCount |-> actualPositiveCount,
   negativeCount |-> actualNegativeCount]

\* ------------------------------------------------------------ control
\* a gate whose comparison is off by one: a count one below the minimum passes
GateOffByOne(count, min, reason, next) ==
  IF count < min - 1
  THEN /\ mlResults' = FailureResult(reason, suitabilityMask)
       /\ pc' = "Return"
  ELSE /\ pc' = next
       /\ UNCHANGED mlResults

\* a gate that records the failure but falls through to the next statement
GateFallThrough(count, min, reason, next) ==
  /\ pc' = next
  /\ IF count < min
     THEN mlResults' = FailureResult(reason, suitabilityMask)
     ELSE UNCHANGED mlResults

\* an early return of runMachineLearning when a count is below its minimum,
\* otherwise the next statement
Gate(count, min, reason, next) ==
  IF count < min
  THEN /\ mlResults' = FailureResult(reason, suitabilityMask)
       /\ pc' = "Return"
  ELSE /\ pc' = next
       /\ UNCHANGED mlResults

\* no outer catch: the error leaves runMachineLearning and analyzeSuitability
CatchRethrow(site) ==
  /\ raised' = site
  /\ pc' = "thrown"
  /\ UNCHANGED mlResults

\* the outer catch of runMachineLearning: a getInfo call threw
Catch(site) ==
  /\ raised' = site
  /\ mlResults' = FailureResult(ErrorMessage, suitabilityMask)
  /\ pc' = "Return"

Init ==
  /\ pc = "BuildFactors"
  /\ region \in Regions
  /\ year \in Years
  /\ factors = NoImage
  /\ suitabilityMask = NoImage
  /\ vineyardCount = NotYet
  /\ positivePointCount = NotYet
  /\ actualPositiveCount = NotYet
  /\ actualNegativeCount = NotYet
  /\ sampleCount = NotYet
  /\ trainingCount = NotYet
  /\ testingCount = NotYet
  /\ validation = Null
  /\ matrixAccuracy = Null
  /\ accuracy = Null
  /\ mlResults = Null
  /\ result = Null
  /\ stages = << >>
  /\ raised = "none"
  /\ AuxIdle

\* analyzeSuitability: computeEnvironmentalFactors(region, year)
BuildFactors ==
  /\ pc = "BuildFactors"
  /\ UNCHANGED aux
  /\ \E f \in [Pixels -> FactorSamples] : factors' = f
  /\ stages' = Append(stages, "BuildFactors")
  /\ pc' = "BuildMask"
  /\ UNCHANGED <<region, year, suitabilityMask, counts, validation,
                 matrixAccuracy, accuracy, mlResults, result, raised>>

\* analyzeSuitability: computeSuitabilityMask(factors)
BuildMask ==
  /\ pc = "BuildMask"
  /\ UNCHANGED aux
  /\ suitabilityMask' = computeSuitabilityMask(factors)
  /\ stages' = Append(stages, "BuildMask")
  /\ pc' = "VineyardCount"
  /\ UNCHANGED <<region, year, factors, counts, validation, matrixAccuracy,
                 accuracy, mlResults, result, raised>>

\* runMachineLearning: vineyards.filterBounds(region).size().getInfo()
VineyardCount ==
  /\ pc = "VineyardCount"
  /\ UNCHANGED aux
  /\ stages' = Append(stages, "VineyardCount")
  /\ \/ /\ \E n \in CountSamples(MinVineyards, MaxVineyards) :
             /\ vineyardCount' = n
             /\ Gate(n, MinVineyards, Reason("vineyards"), "Positives")
        /\ UNCHANGED raised
     \/ /\ Catch("vineyardCount")
        /\ UNCHANGED vineyardCount
  /\ UNCHANGED <<region, year, factors, suitabilityMask, positivePointCount,
                 actualPositiveCount, actualNegativeCount, sampleCount,
                 trainingCount, testingCount, validation, matrixAccuracy,
                 accuracy, result>>

\* the positive points are requested but their count is not awaited
PositivesNotAwaited ==
  /\ pc = "Positives"
  /\ UNCHANGED aux
  /\ stages' = Append(stages, "Positives")
  /\ positivePointCount' = PositivePointCount(vineyardCount)
  /\ pc' = "Negatives"
  /\ UNCHANGED <<region, year, factors, suitabilityMask, vineyardCount,
                 actualPositiveCount, actualNegativeCount, sampleCount,
                 trainingCount, testingCount, validation, matrixAccuracy,
                 accuracy, mlResults, result, raised>>

\* runMachineLearning: randomPoints in the vineyards, class 1
Positives ==
  /\ pc = "Positives"
  /\ UNCHANGED aux
  /\ stages' = Append(stages, "Positives")
  /\ positivePointCount' = PositivePointCount(vineyardCount)
  /\ \/ /\ \E n \in CountSamples(MinPositive,
                                 Min(PositivePointCount(vineyardCount), MaxRealized)) :
             /\ actualPositiveCount' = n
             /\ Gate(n, MinPositive, Reason("positives"), "Negatives")
        /\ UNCHANGED raised
     \/ /\ Catch("actualPositiveCount")
        /\ UNCHANGED actualPositiveCount
  /\ UNCHANGED <<region, year, factors, suitabilityMask, vineyardCount,
                 actualNegativeCount, sampleCount, trainingCount, testingCount,
                 validation, matrixAccuracy, accuracy, result>>

\* runMachineLearning: 400 randomPoints in the region, filtered, class 0
Negatives ==
  /\ pc = "Negatives"
  /\ UNCHANGED aux
  /\ stages' = Append(stages, "Negatives")
  /\ \/ /\ \E n \in CountSamples(MinNegative, Min(NegativeCandidates, MaxRealized)) :
             /\ actualNegativeCount' = n
             /\ Gate(n, MinNegative, Reason("negatives"), "ExtractFeatures")
        /\ UNCHANGED raised
     \/ /\ Catch("actualNegativeCount")
        /\ UNCHANGED actualNegativeCount
  /\ UNCHANGED <<region, year, factors, suitabilityMask, vineyardCount,
                 positivePointCount, actualPositiveCount, sampleCount,
                 trainingCount, testingCount, validation, matrixAccuracy,
                 accuracy, result>>

\* runMachineLearning: featureImage.sampleRegions(allPoints)
ExtractFeatures ==
  /\ pc = "ExtractFeatures"
  /\ UNCHANGED aux
  /\ stages' = Append(stages, "ExtractFeatures")
  /\ \/ /\ \E n \in CountSamples(MinSamples, actualPositiveCount + actualNegativeCount) :
             /\ sampleCount' = n
             /\ Gate(n, MinSamples, Reason("rows"), "Split")
        /\ UNCHANGED raised
     \/ /\ Catch("sampleCount")
        /\ UNCHANGED sampleCount
  /\ UNCHANGED <<region, year, factors, suitabilityMask, vineyardCount,
                 positivePointCount, actualPositiveCount, actualNegativeCount,
                 trainingCount, testingCount, validation, matrixAccuracy,
                 accuracy, result>>

\* the training sizes the random column may give for n rows
SplitSamples(n) ==
  {k \in {0, MinTraining - 1, MinTraining, n - MinTesting, n - MinTesting + 1, n} :
     k >= 0 /\ k <= n}

\* if (trainingCount < 5 || testingCount < 5) return the failure object
SplitGate(training, testing) ==
  IF training < MinTraining \/ testing < MinTesting
  THEN /\ mlResults' = FailureResult(
                          Reason(IF training < MinTraining THEN "training" ELSE "testing"),
                          suitabilityMask)
       /\ pc' = "Return"
  ELSE /\ pc' = "TrainEvaluate"
       /\ UNCHANGED mlResults

\* runMachineLearning: randomColumn, random < 0.7 is training, >= 0.7 testing
Split ==
  /\ pc = "Split"
  /\ UNCHANGED aux
  /\ stages' = Append(stages, "Split")
  /\ \/ /\ \E k \in SplitSamples(sampleCount) :
             /\ trainingCount' = k
             /\ testingCount' = sampleCount - k
             /\ SplitGate(k, sampleCount - k)
        /\ UNCHANGED raised
     \/ /\ Catch("trainingCount")
        /\ UNCHANGED <<trainingCount, testingCount>>
     \/ /\ \E k \in SplitSamples(sampleCount) : trainingCount' = k
        /\ Catch("testingCount")
        /\ UNCHANGED testingCount
  /\ UNCHANGED <<region, year, factors, suitabilityMask, vineyardCount,
                 positivePointCount, actualPositiveCount, actualNegativeCount,
                 sampleCount, validation, matrixAccuracy, accuracy, result>>

\* the classified test rows: how many have class 1, how many are predicted
\* as their class
ValidationSamples(n) ==
  {[total |-> n, ones |-> o, correct |-> c] :
     o \in {k \in {0, 1, n} : k <= n}, c \in {k \in {0, n - 1, n} : k >= 0}}

\* runMachineLearning: train the random forest, classify the test rows and
\* compute the accuracy inside the inner try/catch
TrainEvaluate ==
  /\ pc = "TrainEvaluate"
  /\ UNCHANGED aux
  /\ stages' = Append(stages, "TrainEvaluate")
  /\ \E v \in ValidationSamples(testingCount) :
       /\ validation' = v
       /\ \/ /\ \E a \in {Number(v.correct, v.total), NaN} :
                  /\ matrixAccuracy' = a
                  /\ accuracy' = AccuracyAfterCheck(a, v)
             /\ UNCHANGED raised
          \/ /\ raised' = "accuracy"
             /\ accuracy' = Number(0, 1)
             /\ UNCHANGED matrixAccuracy
  /\ pc' = "Score"
  /\ UNCHANGED <<region, year, factors, suitabilityMask, counts, mlResults,
                 result>>

\* probabilities (in tenths) the classifier gives a pixel
ScoreValues == {HighThreshold, HighThreshold + 1}

\* runMachineLearning: classify in PROBABILITY mode, threshold, integrate
\* the area, and return the success object
Score ==
  /\ pc = "Score"
  /\ UNCHANGED aux
  /\ stages' = Append(stages, "Score")
  /\ \E score \in [Pixels -> ScoreValues] :
       mlResults' = SuccessResult(score, accuracy)
  /\ pc' = "Return"
  /\ UNCHANGED <<region, year, factors, suitabilityMask, counts, validation,
                 matrixAccuracy, accuracy, result, raised>>

\* analyzeSuitability: the returned object
Return ==
  /\ pc = "Return"
  /\ UNCHANGED aux
  /\ result' = [region |-> region, year |-> year, factors |-> factors,
                suitabilityMask |-> suitabilityMask, mlResults |-> mlResults,
                vineyards |-> "existing_vineyards"]
  /\ pc' = "done"
  /\ UNCHANGED <<region, year, factors, suitabilityMask, counts, validation,
                 matrixAccuracy, accuracy, mlResults, stages, raised>>

Next ==
  \/ BuildFactors
  \/ BuildMask
  \/ VineyardCount
  \/ Positives
  \/ Negatives
  \/ ExtractFeatures
  \/ Split
  \/ TrainEvaluate
  \/ Score
  \/ Return

Spec == Init /\ [][Next]_vars

\* ================================================================ SpecRuns
\* Several analyses side by side.  What the services answer is a function of
\* the region and year analysed and of the seed handed to a random operation;
\* every analysis has its own local variables.

Runs == 1..NRuns
Max(a, b) == IF a > b THEN a ELSE b

\* the (region, year) pairs analysed
ArgSet == {[region |-> "Kent", year |-> "2023"], [region |-> "Sussex", year |-> "2020"]}

\* the seed randomColumn() uses: it is called without a seed argument, which
\* is Earth Engine's default seed 0 in every run
RandomColumnSeedPerRun(run) == run
RandomColumnSeed(run) == 0

\* what the services answer for one region and year: the factor rasters, the
\* counts (the random ones per seed), the test rows, whether the error matrix
\* gives NaN, the getInfo call that fails, the probability raster
BaseScenario ==
  [factors |-> [p \in Pixels |-> IF p = 1 THEN SuitablePixel ELSE ColdPixel],
   vineyards |-> 10,
   positives |-> [sd \in {PositiveSeed} |-> 6],
   negatives |-> [sd \in {NegativeSeed} |-> 6],
   rows |-> 12,
   training |-> [sd \in 0..NRuns |-> Max(0, 6 - sd)],
   ones |-> 1,
   correct |-> [sd \in {ClassifierSeed} |-> 5],
   nan |-> FALSE,
   fault |-> "none",
   score |-> [p \in Pixels |-> IF p = 1 THEN HighThreshold + 1 ELSE HighThreshold]]
Scenarios ==
  {BaseScenario,
   [BaseScenario EXCEPT !.vineyards = 3,
                        !.factors = [p \in Pixels |-> ColdPixel]],
   [BaseScenario EXCEPT !.training = [sd \in 0..NRuns |-> Max(0, 4 - sd)]],
   [BaseScenario EXCEPT !.nan = TRUE, !.ones = 0],
   [BaseScenario EXCEPT !.fault = "sampleCount"],
   [BaseScenario EXCEPT !.fault = "accuracy"]}

\* the local variables of analyzeSuitability and runMachineLearning on entry
InitLocal(a) ==
  [pc |-> "BuildFactors", region |-> a.region, year |-> a.year,
   factors |-> NoImage, suitabilityMask |-> NoImage,
   vineyardCount |-> NotYet, actualPositiveCount |-> NotYet,
   actualNegativeCount |-> NotYet, sampleCount |-> NotYet,
   trainingCount |-> NotYet, testingCount |-> NotYet,
   accuracy |-> Null, mlResults |-> Null, result |-> Null]

\* a count gate on the local variables l: store the count, return early or go on
LocalGate(l, field, n, min, reason, next) ==
  IF n < min
  THEN [l EXCEPT ![field] = n,
                 !.mlResults = FailureResult(reason, l.suitabilityMask),
                 !.pc = "Return"]
  ELSE [l EXCEPT ![field] = n, !.pc = next]

\* the outer catch on the local variables l
LocalCatch(l) ==
  [l EXCEPT !.mlResults = FailureResult(ErrorMessage, l.suitabilityMask),
            !.pc = "Return"]

\* the split gate on the local variables l
LocalSplit(l, k) ==
  LET l2 == [l EXCEPT !.trainingCount = k, !.testingCount = l.sampleCount - k]
  IN IF k < MinTraining \/ l.sampleCount - k < MinTesting
     THEN [l2 EXCEPT !.mlResults =
                        FailureResult(
                          Reason(IF k < MinTraining THEN "training" ELSE "testing"),
                          l.suitabilityMask),
                     !.pc = "Return"]
     ELSE [l2 EXCEPT !.pc = "TrainEvaluate"]

\* the accuracy of the inner try/catch for the answers w
LocalAccuracy(l, w) ==
  LET v == [total |-> l.testingCount,
            ones |-> Min(w.ones, l.testingCount),
            correct |-> Min(w.correct[ClassifierSeed], l.testingCount)]
  IN IF w.fault = "accuracy"
     THEN Number(0, 1)
     ELSE AccuracyAfterCheck(IF w.nan THEN NaN ELSE Number(v.correct, v.total), v)

\* the success object built from the local variables l
LocalSuccess(l, score) ==
  [success |-> TRUE,
   suitabilityScore |-> score,
   highSuitabilityAreas |-> HighSuitability(score),
   area |-> AreaCalculation(HighSuitability(score)),
   accuracy |-> l.accuracy,
   importance |-> "classifier.explain()",
   featureImage |-> l.factors,
   classifier |-> "smileRandomForest(50, 2, 42)",
   sampledPoints |-> l.sampleCount,
   positiveCount |-> l.actualPositiveCount,
   negativeCount |-> l.actualNegativeCount]

\* one stage of analyzeSuitability on the local variables l of analysis run,
\* with the answers w of the services for its region and year
StepRun(l, w, run) ==
  CASE l.pc = "BuildFactors" ->
         [l EXCEPT !.factors = w.factors, !.pc = "BuildMask"]
    [] l.pc = "BuildMask" ->
         [l EXCEPT !.suitabilityMask = computeSuitabilityMask(l.factors),
                   !.pc = "VineyardCount"]
    [] l.pc = "VineyardCount" ->
         IF w.fault = "vineyardCount" THEN LocalCatch(l)
         ELSE LocalGate(l, "vineyardCount", w.vineyards, MinVineyards,
                        Reason("vineyards"), "Positives")
    [] l.pc = "Positives" ->
         IF w.fault = "actualPositiveCount" THEN LocalCatch(l)
         ELSE LocalGate(l, "actualPositiveCount",
                        Min(w.positives[PositiveSeed], PositivePointCount(l.vineyardCount)),
                        MinPositive, Reason("positives"), "Negatives")
    [] l.pc = "Negatives" ->
         IF w.fault = "actualNegativeCount" THEN LocalCatch(l)
         ELSE LocalGate(l, "actualNegativeCount",
                        Min(w.negatives[NegativeSeed], NegativeCandidates),
                        MinNegative, Reason("negatives"), "ExtractFeatures")
    [] l.pc = "ExtractFeatures" ->
         IF w.fault = "sampleCount" THEN LocalCatch(l)
         ELSE LocalGate(l, "sampleCount",
                        Min(w.rows, l.actualPositiveCount + l.actualNegativeCount),
                        MinSamples, Reason("rows"), "Split")
    [] l.pc = "Split" ->
         IF w.fault = "trainingCount" THEN LocalCatch(l)
         ELSE LocalSplit(l, Min(w.training[RandomColumnSeed(run)], l.sampleCount))
    [] l.pc = "TrainEvaluate" ->
         [l EXCEPT !.accuracy = LocalAccuracy(l, w), !.pc = "Score"]
    [] l.pc = "Score" ->
         [l EXCEPT !.mlResults = LocalSuccess(l, w.score), !.pc = "Return"]
    [] l.pc = "Return" ->
         [l EXCEPT !.result =
                     [region |-> l.region, year |-> l.year, factors |-> l.factors,
                      suitabilityMask |-> l.suitabilityMask,
                      mlResults |-> l.mlResults,
                      vineyards |-> "existing_vineyards"],
                   !.pc = "done"]
    [] OTHER -> l

\* the region and year analysis r was called with
ArgsOf(l) == [region |-> l.region, year |-> l.year]

\* the variables of the single-run specification when no such run is under way
SingleIdle ==
  /\ pc = "idle"
  /\ region = "none" /\ year = "none"
  /\ factors = NoImage /\ suitabilityMask = NoImage
  /\ vineyardCount = NotYet /\ positivePointCount = NotYet
  /\ actualPositiveCount = NotYet /\ actualNegativeCount = NotYet
  /\ sampleCount = NotYet /\ trainingCount = NotYet /\ testingCount = NotYet
  /\ validation = Null /\ matrixAccuracy = Null /\ accuracy = Null
  /\ mlResults = Null /\ result = Null
  /\ stages = << >> /\ raised = "none"

InitRuns ==
  /\ SingleIdle
  /\ PageIdle /\ CompareIdle
  /\ call = Null /\ ret = Null
  /\ world \in [ArgSet -> Scenarios]
  /\ \E a \in [Runs -> ArgSet] : runs = [r \in Runs |-> InitLocal(a[r])]

single ==
  <<pc, region, year, factors, suitabilityMask, counts, validation,
    matrixAccuracy, accuracy, mlResults, result, stages, raised>>

\* the global suitabilityMask of a function that forgot its var: the stage
\* of one analysis overwrites the mask of the others
RunStepSharedMask(r) ==
  /\ runs[r].pc # "done"
  /\ LET l == StepRun(runs[r], world[ArgsOf(runs[r])], r)
     IN runs' = [q \in Runs |->
                   IF q = r THEN l
                   ELSE IF runs[r].pc = "BuildMask" /\ runs[q].pc # "done"
                        THEN [runs[q] EXCEPT !.suitabilityMask = l.suitabilityMask]
                        ELSE runs[q]]
  /\ UNCHANGED <<single, world, call, ret, page, compare>>

\* analysis r executes its next stage on its own local variables
RunStep(r) ==
  /\ runs[r].pc # "done"
  /\ runs' = [runs EXCEPT ![r] = StepRun(runs[r], world[ArgsOf(runs[r])], r)]
  /\ UNCHANGED <<single, world, call, ret, page, compare>>

AnyRunStep == \E r \in Runs : RunStep(r)

NextRuns == AnyRunStep

SpecRuns == InitRuns /\ [][NextRuns]_vars


\* ================================================================ SpecPure
\* One call of one function of the script: call holds the function and its
\* arguments, ret what it returned.

\* values of a factor just outside and on the bounds of its range
Around(lo, hi) == {lo - 1, lo, hi, hi + 1}
AspectSamples == {0, 180}
LatitudeSamples == {50, 55}

\* the factor values of one pixel, around every bound
PixelSamples ==
  [gst : Around(GstMin, GstMax), gdd : Around(GddMin, GddMax),
   gsp : Around(GspMin, GspMax), slope : Around(SlopeMin, SlopeMax),
   aspect : AspectSamples, elevation : Around(ElevationMin, ElevationMax),
   latitude : LatitudeSamples]

\* the factor images: one pixel takes the sampled values, the others are suitable
ImageOf(px) == [p \in Pixels |-> IF p = 1 THEN px ELSE SuitablePixel]

\* the test turned inside out: true outside the range
maskGSTOutside(gst, minG, maxG) == gst < minG \/ gst > maxG

\* maskGST(gst, minG, maxG): minG <= gst <= maxG; maskGDD and maskGSP are the
\* same test, and so is each of the five masks of computeSuitabilityMask
maskGST(gst, minG, maxG) == gst >= minG /\ gst <= maxG

\* the ranges computeSuitabilityMask is written with
CodeRanges ==
  [gst |-> <<GstMin, GstMax>>, gdd |-> <<GddMin, GddMax>>,
   gsp |-> <<GspMin, GspMax>>, slope |-> <<SlopeMin, SlopeMax>>,
   elevation |-> <<ElevationMin, ElevationMax>>]
RangedFactors == DOMAIN CodeRanges

\* computeSuitabilityMask with the ranges R in place of its literals
MaskWithRanges(f, R) ==
  [p \in DOMAIN f |->
     \A k \in RangedFactors : maskGST(f[p][k], R[k][1], R[k][2])]

\* ranges one step narrower, equal or wider than the range of factor k
RangeSamples(k) ==
  {<<lo, hi>> : lo \in {CodeRanges[k][1] - 1, CodeRanges[k][1], CodeRanges[k][1] + 1},
                hi \in {CodeRanges[k][2] - 1, CodeRanges[k][2], CodeRanges[k][2] + 1}}

\* the sum of pixel areas over the region, whatever the mask
computeAreaUnmasked(mask, reg) ==
  SumOver([p \in reg |-> PixelArea], reg)

\* the sum converted to square kilometres inside the function
computeAreaKm2(mask, reg) ==
  SumOver([p \in reg |-> mask[p] * PixelArea], reg) \div SqMPerSqKm

\* computeArea(mask, region): mask.multiply(pixelArea()) summed over the
\* pixels of the region, the value of band 'mask'
computeArea(mask, reg) ==
  SumOver([p \in reg |-> mask[p] * PixelArea], reg)

\* masks as computeMask returns them (0 or 1 per pixel) and regions
MaskSamples == [Pixels -> {0, 1}]
RegionSamples == SUBSET Pixels

\* temperatures are kept in twentieths of a degree, so that divide(10) and
\* divide(2) are exact
TempUnit == 20

\* tmmx.divide(10).add(tmmn.divide(10)).divide(2)
Tmean(tmmx, tmmn) ==
  ((tmmx * TempUnit) \div RawPerDegree + (tmmn * TempUnit) \div RawPerDegree) \div 2

\* the monthly value without max(0)
MonthlyGDDNoClamp(tmmx, tmmn, baseTemp, daysPerMonth) ==
  (Tmean(tmmx, tmmn) - baseTemp * TempUnit) * daysPerMonth

\* tmean.subtract(baseTemp).max(0).multiply(daysPerMonth)
MonthlyGDD(tmmx, tmmn, baseTemp, daysPerMonth) ==
  Max(Tmean(tmmx, tmmn) - baseTemp * TempUnit, 0) * daysPerMonth

\* GrapeML.computeGDD at one pixel: tc.map(...).sum() over the monthly images
computeGDD(months, baseTemp, daysPerMonth) ==
  SumOver([i \in DOMAIN months |->
             MonthlyGDD(months[i].tmmx, months[i].tmmn, baseTemp, daysPerMonth)],
          DOMAIN months)

\* raw tmmx, tmmn of a month: mean 15, 5, exactly 10, below zero, 16.25
MonthSamples ==
  {[tmmx |-> 200, tmmn |-> 100], [tmmx |-> 100, tmmn |-> 0],
   [tmmx |-> 120, tmmn |-> 80], [tmmx |-> 0 - 50, tmmn |-> 0 - 100],
   [tmmx |-> 215, tmmn |-> 110]}

\* the training filter with lte: a row at 0.7 is in both parts
TrainingRowsInclusive(rows) == {i \in DOMAIN rows : rows[i] <= SplitThreshold}

\* sampledPoints.filter(ee.Filter.lt('random', 0.7)); rows[i] is the random
\* value of row i in tenths
TrainingRows(rows) == {i \in DOMAIN rows : rows[i] < SplitThreshold}

\* sampledPoints.filter(ee.Filter.gte('random', 0.7))
TestingRows(rows) == {i \in DOMAIN rows : rows[i] >= SplitThreshold}

\* where the split gate sends the run, and with which error
SplitOutcome(training, testing) ==
  IF training < MinTraining \/ testing < MinTesting
  THEN [next |-> "Return",
        error |-> Reason(IF training < MinTraining THEN "training" ELSE "testing")]
  ELSE [next |-> "TrainEvaluate", error |-> ""]

\* a table with a rows at 0.6, b rows at exactly 0.7 and c rows at 0.9
RowsOf(a, b, c) ==
  [i \in 1..(a + b + c) |->
     IF i <= a THEN SplitThreshold - 1
     ELSE IF i <= a + b THEN SplitThreshold ELSE SplitThreshold + 2]

\* positivePoints.merge(negativePoints): a positive points of class 1 and b
\* negative points of class 0; the first da positive and the first db
\* negative points lie where the feature image has no data
MergedPoints(a, b, da, db) ==
  [i \in 1..(a + b) |->
     IF i <= a THEN [class |-> 1, data |-> i > da]
     ELSE [class |-> 0, data |-> i - a > db]]

\* the rows all labelled class 1, whatever the point
sampleRegionsOneClass(points) ==
  {[point |-> i, class |-> 1] : i \in {j \in DOMAIN points : points[j].data}}

\* featureImage.sampleRegions({collection: allPoints, properties: ['class']}):
\* one row per point that has data, with the point's class property
sampleRegions(points) ==
  {[point |-> i, class |-> points[i].class] :
     i \in {j \in DOMAIN points : points[j].data}}

\* where the extraction gate sends the run, and with which error
ExtractionOutcome(n) ==
  IF n < MinSamples THEN [next |-> "Return", error |-> Reason("rows")]
  ELSE [next |-> "Split", error |-> ""]

\* ee.FeatureCollection.randomPoints({region: geometry}): every point lies on
\* a pixel of the geometry; at[i] is the pixel of candidate point i
randomPoints(geometry, at) ==
  {[id |-> i, pixel |-> at[i]] : i \in {j \in DOMAIN at : at[j] \in geometry}}

\* image.selfMask(): the pixels of value 0 are masked, the image keeps its
\* extent
selfMask(image) == [p \in DOMAIN image |-> IF image[p] THEN "valid" ELSE "masked"]

\* image.geometry(): the footprint of the image, masked pixels included
geometry(image) == DOMAIN image

\* collection.filter(ee.Filter.bounds(geom)): the points that lie in geom
filterBounds(points, geom) == {pt \in points : pt.pixel \in geom}

\* collection.map(feature.set('class', c))
setClass(points, c) ==
  {[id |-> pt.id, pixel |-> pt.pixel, class |-> c] : pt \in points}

\* the positive points: randomPoints in regionalVineyards.geometry(), class 1
positivePoints(vineyardGeometry, at) ==
  setClass(randomPoints(vineyardGeometry, at), 1)

\* the negative points: randomPoints in the region, filtered by the bounds of
\* nonSuitableArea.selfMask().geometry(), class 0
negativePoints(mask, at) ==
  LET nonSuitableArea == [p \in DOMAIN mask |-> ~mask[p]]
  IN setClass(filterBounds(randomPoints(DOMAIN mask, at),
                           geometry(selfMask(nonSuitableArea))), 0)

\* the candidate points randomPoints draws
CandidateIds == 1..2

InitPointsCall ==
  \E m \in [Pixels -> BOOLEAN] : \E vg \in SUBSET Pixels :
    \E pa \in [CandidateIds -> Pixels] : \E na \in [CandidateIds -> Pixels] :
      call = [fn |-> "samplePoints", mask |-> m, vineyardGeometry |-> vg,
              positiveAt |-> pa, negativeAt |-> na]

\* vineyard counts that pass the vineyard gate, to beyond the cap
VineyardSamples == MinVineyards..(2 * MaxVineyards + 2)

InitPositiveCountCall ==
  \E n \in VineyardSamples : call = [fn |-> "positivePointCount", vineyardCount |-> n]

PureIdle ==
  SingleIdle /\ runs = << >> /\ world = << >> /\ PageIdle /\ CompareIdle

InitMaskCall ==
  \E px \in PixelSamples :
    call = [fn |-> "computeSuitabilityMask", factors |-> ImageOf(px)]

InitRangeCall ==
  \E px \in PixelSamples : \E k \in RangedFactors : \E rg \in RangeSamples(k) :
    /\ px.aspect = 180 /\ px.latitude = 50
    /\ call = [fn |-> "replaceRange", factors |-> ImageOf(px),
               factor |-> k, range |-> rg]

InitAreaCall ==
  \E m \in MaskSamples : \E rg \in RegionSamples :
    call = [fn |-> "computeArea", mask |-> m, region |-> rg]

InitScorerCall ==
  \E sc \in [Pixels -> ScoreValues] :
    call = [fn |-> "areaCalculation", score |-> sc]

InitGDDCall ==
  \E n \in 1..NMonths : \E ms \in [1..n -> MonthSamples] :
    call = [fn |-> "computeGDD", months |-> ms]

InitSplitCall ==
  \E a \in 0..MaxRealized : \E b \in 0..MaxRealized : \E c \in 0..1 :
    call = [fn |-> "split", rows |-> RowsOf(a, b, c)]

InitSampleCall ==
  \E a \in MinPositive..MaxRealized : \E b \in MinNegative..MaxRealized :
    \E da \in 0..2 : \E db \in 0..2 :
      call = [fn |-> "sampleRegions", points |-> MergedPoints(a, b, da, db)]

InitPure ==
  /\ PureIdle
  /\ ret = Null
  /\ \/ InitMaskCall
     \/ InitRangeCall
     \/ InitAreaCall
     \/ InitScorerCall
     \/ InitGDDCall
     \/ InitSplitCall
     \/ InitSampleCall
     \/ InitPointsCall
     \/ InitPositiveCountCall

\* GrapeML.computeSuitabilityMask(factors)
CallComputeSuitabilityMask ==
  /\ call.fn = "computeSuitabilityMask"
  /\ ret = Null
  /\ ret' = [value |-> computeSuitabilityMask(call.factors)]
  /\ UNCHANGED <<single, runs, world, call, page, compare>>

\* the mask with the ranges of the code, and with one range replaced
CallReplaceRange ==
  /\ call.fn = "replaceRange"
  /\ ret = Null
  /\ ret' = [narrow |-> MaskWithRanges(call.factors, CodeRanges),
             wide |-> MaskWithRanges(call.factors,
                        [CodeRanges EXCEPT ![call.factor] = call.range])]
  /\ UNCHANGED <<single, runs, world, call, page, compare>>

\* processBatch: area = computeArea(mask, currentRegion), charted as
\* area_km2 = ee.Number(area).divide(1e6)
CallComputeArea ==
  /\ call.fn = "computeArea"
  /\ ret = Null
  /\ LET area == computeArea(call.mask, call.region)
     IN ret' = [value |-> area, area_km2 |-> Divide(area, SqMPerSqKm)]
  /\ UNCHANGED <<single, runs, world, call, page, compare>>

\* runMachineLearning: the area field of the success object
CallAreaCalculation ==
  /\ call.fn = "areaCalculation"
  /\ ret = Null
  /\ ret' = [value |-> AreaCalculation(HighSuitability(call.score))]
  /\ UNCHANGED <<single, runs, world, call, page, compare>>

\* computeEnvironmentalFactors: results.gdd = this.computeGDD(year, 10, 30)
CallComputeGDD ==
  /\ call.fn = "computeGDD"
  /\ ret = Null
  /\ ret' = [monthly |-> [i \in DOMAIN call.months |->
                            MonthlyGDD(call.months[i].tmmx, call.months[i].tmmn,
                                       BaseTemp, DaysPerMonth)],
             value |-> computeGDD(call.months, BaseTemp, DaysPerMonth)]
  /\ UNCHANGED <<single, runs, world, call, page, compare>>

\* runMachineLearning, lines 270-287, on the rows of the table
CallSplit ==
  /\ call.fn = "split"
  /\ ret = Null
  /\ LET training == TrainingRows(call.rows)
         testing == TestingRows(call.rows)
         out == SplitOutcome(Cardinality(training), Cardinality(testing))
     IN ret' = [training |-> training, testing |-> testing,
                trainingCount |-> Cardinality(training),
                testingCount |-> Cardinality(testing),
                next |-> out.next, error |-> out.error]
  /\ UNCHANGED <<single, runs, world, call, page, compare>>

\* runMachineLearning, lines 247-268, on the merged points
CallSampleRegions ==
  /\ call.fn = "sampleRegions"
  /\ ret = Null
  /\ LET rows == sampleRegions(call.points)
         out == ExtractionOutcome(Cardinality(rows))
     IN ret' = [rows |-> rows, sampleCount |-> Cardinality(rows),
                next |-> out.next, error |-> out.error]
  /\ UNCHANGED <<single, runs, world, call, page, compare>>

\* runMachineLearning, lines 200-233: the positive and the negative points
CallSamplePoints ==
  /\ call.fn = "samplePoints"
  /\ ret = Null
  /\ ret' = [positive |-> positivePoints(call.vineyardGeometry, call.positiveAt),
             negative |-> negativePoints(call.mask, call.negativeAt)]
  /\ UNCHANGED <<single, runs, world, call, page, compare>>

\* var positivePointCount = Math.min(vineyardCount * 10, 200)
CallPositivePointCount ==
  /\ call.fn = "positivePointCount"
  /\ ret = Null
  /\ ret' = [value |-> PositivePointCount(call.vineyardCount)]
  /\ UNCHANGED <<single, runs, world, call, page, compare>>

NextPure ==
  \/ CallComputeSuitabilityMask
  \/ CallReplaceRange
  \/ CallComputeArea
  \/ CallAreaCalculation
  \/ CallComputeGDD
  \/ CallSplit
  \/ CallSampleRegions
  \/ CallSamplePoints
  \/ CallPositivePointCount

SpecPure == InitPure /\ [][NextPure]_vars

\* ================================================================ SpecPage
\* The grape analysis page: startGrapeAnalysis, the region loading chain,
\* the county table and the loading indicators.  Handlers run to completion;
\* every evaluate() leaves a request in pending and its callback runs later,
\* in any order.

\* ukLevel2.aggregate_array('ADM2_NAME').getInfo(), and the counties whose
\* 2023 mask has a positive area
CountyNames == <<"Essex", "Kent", "Surrey">>
SuitableCounties == {"Essex", "Kent"}
UnsuitableName == "Unsuitable for 3 Years"

\* batchSize of updateRegion
BatchSize == 4

\* an evaluate request with the variables its callback closes over
Request(kind, chain, name, idx, skip, saved) ==
  [kind |-> kind, chain |-> chain, name |-> name, idx |-> idx, skip |-> skip,
   saved |-> saved]

\* the globals as one record, for the functions that change them in sequence
Globals ==
  [currentPage |-> currentPage, controlPanel |-> controlPanel,
   loadingLabel |-> loadingLabel, bgLoadingLabel |-> bgLoadingLabel,
   currentCountyName |-> currentCountyName, currentRegion |-> currentRegion,
   regionNamesRaw |-> regionNamesRaw, suitableNames |-> suitableNames,
   unsuitableNames |-> unsuitableNames,
   unsuitableGeomsList |-> unsuitableGeomsList,
   finalRegionNames |-> finalRegionNames,
   backgroundLoadingInProgress |-> backgroundLoadingInProgress,
   pending |-> pending, visits |-> visits, finalized |-> finalized]

\* the globals after a handler: g holds their new values, computed once
Assign(g) ==
  \E h \in {g} :
    /\ currentPage' = h.currentPage
    /\ controlPanel' = h.controlPanel
    /\ loadingLabel' = h.loadingLabel
    /\ bgLoadingLabel' = h.bgLoadingLabel
    /\ currentCountyName' = h.currentCountyName
    /\ currentRegion' = h.currentRegion
    /\ regionNamesRaw' = h.regionNamesRaw
    /\ suitableNames' = h.suitableNames
    /\ unsuitableNames' = h.unsuitableNames
    /\ unsuitableGeomsList' = h.unsuitableGeomsList
    /\ finalRegionNames' = h.finalRegionNames
    /\ backgroundLoadingInProgress' = h.backgroundLoadingInProgress
    /\ pending' = h.pending
    /\ visits' = h.visits
    /\ finalized' = h.finalized

\* computation.evaluate(callback)
evaluate(g, req) == [g EXCEPT !.pending = @ (+) SetToBag({req})]

\* showLoading(message): an existing label only gets the new text; a new
\* label is inserted into controlPanel
showLoading(g) ==
  IF g.loadingLabel THEN g
  ELSE [g EXCEPT !.loadingLabel = TRUE,
                 !.controlPanel.widgets =
                    IF g.controlPanel.id # 0 THEN @ \cup {"loadingLabel"} ELSE @]

\* hideLoading()
hideLoading(g) ==
  IF g.loadingLabel /\ g.controlPanel.id # 0
  THEN [g EXCEPT !.loadingLabel = FALSE,
                 !.controlPanel.widgets = @ \ {"loadingLabel"}]
  ELSE g

\* showBackgroundLoading(message)
showBackgroundLoading(g) ==
  IF g.loadingLabel \/ g.bgLoadingLabel THEN g
  ELSE [g EXCEPT !.bgLoadingLabel = TRUE,
                 !.controlPanel.widgets = @ \cup {"bgLoadingLabel"}]

\* hideBackgroundLoading()
hideBackgroundLoading(g) ==
  IF g.bgLoadingLabel /\ g.controlPanel.id # 0
  THEN [g EXCEPT !.bgLoadingLabel = FALSE,
                 !.controlPanel.widgets = @ \ {"bgLoadingLabel"}]
  ELSE g

\* controlPanel.clear() followed by the widgets of a view
ClearTo(g, view) ==
  [g EXCEPT !.controlPanel.widgets = {}, !.controlPanel.view = view,
            !.controlPanel.buttons = {}]

\* processBatch(startIdx) of updateRegion
processBatch(g, startIdx) ==
  IF startIdx >= NYears THEN hideLoading(g)
  ELSE evaluate(showLoading(g),
                Request("batch", 0, "", Min(startIdx + BatchSize, NYears), 0, ""))

\* updateRegion()
updateRegion(g) ==
  LET g1 == IF g.currentRegion = ""
            THEN [g EXCEPT !.currentRegion = g.currentCountyName] ELSE g
  IN processBatch(showLoading(g1), 0)

\* rebuildMainPanel()
rebuildMainPanel(g) ==
  LET g1 == ClearTo(g, "main")
      g2 == IF g1.backgroundLoadingInProgress THEN showBackgroundLoading(g1) ELSE g1
      g3 == [g2 EXCEPT !.currentRegion = g2.currentCountyName]
  IN updateRegion(g3)

\* showCountyTable(), up to its evaluate
showCountyTable(g) ==
  LET g1 == ClearTo(g, "tablePending")
      g2 == IF g1.backgroundLoadingInProgress THEN showBackgroundLoading(g1) ELSE g1
  IN evaluate(showLoading(g2), Request("table", 0, "", 0, 0, ""))

\* finalizeRegionLists(); the first widget of controlPanel is the Home button
\* or a loading label, never the label 'County Table (Click to Select)', so
\* isViewingTable is false
finalizeRegionLists(g, chain) ==
  LET g1 == [g EXCEPT !.finalRegionNames =
                         IF Len(g.unsuitableNames) > 0
                         THEN Append(g.suitableNames, UnsuitableName)
                         ELSE g.suitableNames,
                      !.backgroundLoadingInProgress = FALSE,
                      !.finalized = @ \cup {chain}]
  IN hideBackgroundLoading(g1)

\* the chain that goes on after reaching the end of the list without
\* finalizing
continueLoadingRegionsNoFinalize(g, chain, startIdx, skipIdx) == g

\* continueLoadingRegions(startIdx, skipIdx); indices count from 0
RECURSIVE continueLoadingRegions(_, _, _, _)
continueLoadingRegions(g, chain, startIdx, skipIdx) ==
  IF startIdx >= Len(g.regionNamesRaw) THEN finalizeRegionLists(g, chain)
  ELSE IF startIdx = skipIdx
  THEN continueLoadingRegions(g, chain, startIdx + 1, skipIdx)
  ELSE LET name == g.regionNamesRaw[startIdx + 1]
           g1 == [g EXCEPT !.currentCountyName = name,
                           !.visits[chain] = Append(@, startIdx)]
       IN evaluate(showBackgroundLoading(g1),
                   Request("bgArea", chain, name, startIdx, skipIdx,
                           g.currentCountyName))

\* the index of 'Kent' in regionNamesRaw, or -1
KentIndex(names) ==
  IF \E i \in 1..Len(names) : names[i] = "Kent"
  THEN (CHOOSE i \in 1..Len(names) :
          names[i] = "Kent" /\ \A j \in 1..(i - 1) : names[j] # "Kent") - 1
  ELSE 0 - 1

\* initializeRegions(), up to its evaluate
initializeRegions(g, chain) ==
  LET g1 == showLoading(g)
      kentIndex == IF KentIndex(g.regionNamesRaw) = 0 - 1 THEN 0
                   ELSE KentIndex(g.regionNamesRaw)
      g2 == [g1 EXCEPT !.currentCountyName =
                          IF KentIndex(g.regionNamesRaw) = 0 - 1
                          THEN g.regionNamesRaw[1] ELSE "Kent"]
  IN evaluate(g2, Request("initArea", chain, g2.currentCountyName, 0,
                          kentIndex, ""))

\* suitableNames.push(name) or unsuitableNames.push(name) with its geometry,
\* by the area computed for the county the request was made for
Classify(g, name, county) ==
  IF county \in SuitableCounties
  THEN [g EXCEPT !.suitableNames = Append(@, name)]
  ELSE [g EXCEPT !.unsuitableNames = Append(@, name),
                 !.unsuitableGeomsList = Append(@, county)]

\* one request of pending, taken out of it
Take(req) == [Globals EXCEPT !.pending = @ (-) SetToBag({req})]

PendingOf(kind) == {req \in BagToSet(pending) : req.kind = kind}

InitPage ==
  /\ SingleIdle
  /\ runs = << >> /\ world = << >> /\ call = Null /\ ret = Null
  /\ PageIdle /\ CompareIdle

\* ---- user actions
\* the button on the home page: startGrapeAnalysis()
Launch ==
  /\ currentPage = "home"
  /\ launches < MaxLaunches
  /\ launches' = launches + 1
  /\ LET chain == launches + 1
         g1 == [Globals EXCEPT
                  !.currentPage = "grapeAnalysis",
                  !.controlPanel = [id |-> chain, view |-> "init",
                                    widgets |-> {}, buttons |-> {}],
                  !.regionNamesRaw = CountyNames,
                  !.suitableNames = << >>, !.unsuitableNames = << >>,
                  !.unsuitableGeomsList = << >>, !.finalRegionNames = << >>,
                  !.currentCountyName = "Kent",
                  !.visits = Append(@, << >>)]
         g2 == initializeRegions(g1, chain)
     IN /\ Assign(g2)
        /\ selected' = g2.currentCountyName
  /\ UNCHANGED <<lastRead, clicks, single, runs, world, call, ret, compare>>

\* the Home button: createHomePage()
Home ==
  /\ currentPage = "grapeAnalysis"
  /\ Assign([Globals EXCEPT !.currentPage = "home"])
  /\ UNCHANGED <<selected, lastRead, launches, clicks, single, runs, world, call, ret, compare>>

\* 'View Region Table': showCountyTable()
ViewTable ==
  /\ currentPage = "grapeAnalysis" /\ controlPanel.view = "main"
  /\ clicks < MaxClicks
  /\ clicks' = clicks + 1
  /\ Assign(showCountyTable(Globals))
  /\ UNCHANGED <<selected, lastRead, launches, single, runs, world, call, ret, compare>>

\* a county button, or the 'no suitable area' button, of the table
ClickCounty ==
  /\ currentPage = "grapeAnalysis" /\ controlPanel.view = "table"
  /\ clicks < MaxClicks
  /\ clicks' = clicks + 1
  /\ \E name \in controlPanel.buttons :
       /\ Assign(rebuildMainPanel([Globals EXCEPT !.currentCountyName = name]))
       /\ selected' = name
       /\ lastRead' = [value |-> name, selected |-> name]
  /\ UNCHANGED <<launches, single, runs, world, call, ret, compare>>

\* 'go back' of the table: rebuildMainPanel()
GoBack ==
  /\ currentPage = "grapeAnalysis" /\ controlPanel.view = "table"
  /\ clicks < MaxClicks
  /\ clicks' = clicks + 1
  /\ Assign(rebuildMainPanel(Globals))
  /\ lastRead' = [value |-> currentCountyName, selected |-> selected]
  /\ UNCHANGED <<selected, launches, single, runs, world, call, ret, compare>>

\* a checkbox of the legend: showLoading, then updateRegion and hideLoading
\* in the callback
ToggleCheckbox ==
  /\ currentPage = "grapeAnalysis" /\ controlPanel.view = "main"
  /\ clicks < MaxClicks
  /\ clicks' = clicks + 1
  /\ Assign(evaluate(showLoading(Globals),
                     Request("updateRegion", 0, "", 0, 0, "")))
  /\ UNCHANGED <<selected, lastRead, launches, single, runs, world, call, ret, compare>>

\* ---- callbacks
\* the callback of initializeRegions
InitAreaCallback ==
  \E req \in PendingOf("initArea") :
    \E g1 \in {Classify(Take(req), currentCountyName, req.name)} :
    \E g2 \in {hideLoading([g1 EXCEPT !.finalRegionNames = g1.suitableNames])} :
    \E g3 \in {rebuildMainPanel(g2)} :
    \E g4 \in {[g3 EXCEPT !.backgroundLoadingInProgress = TRUE]} :
       /\ Assign(continueLoadingRegions(g4, req.chain, 0, req.skip))
       /\ UNCHANGED <<selected, lastRead, launches, clicks, single, runs, world, call, ret, compare>>

\* the area callback of continueLoadingRegions
BgAreaCallback ==
  \E req \in PendingOf("bgArea") :
    LET g1 == Classify(Take(req), req.name, req.name)
        g2 == [g1 EXCEPT !.currentCountyName = req.saved]
    IN /\ Assign(evaluate(g2, Request("bgNext", req.chain, "", req.idx + 1,
                                      req.skip, "")))
       /\ UNCHANGED <<selected, lastRead, launches, clicks, single, runs, world, call, ret, compare>>

\* ee.Number(1).evaluate: continueLoadingRegions(startIdx + 1, skipIdx)
BgNextCallback ==
  \E req \in PendingOf("bgNext") :
    /\ Assign(continueLoadingRegions(Take(req), req.chain, req.idx, req.skip))
    /\ UNCHANGED <<selected, lastRead, launches, clicks, single, runs, world, call, ret, compare>>

\* the callback of showCountyTable: the buttons, then hideLoading
TableCallback ==
  \E req \in PendingOf("table") :
    LET g1 == Take(req)
        names == {suitableNames[i] : i \in 1..Len(suitableNames)}
                   \cup (IF Len(unsuitableNames) > 0 THEN {UnsuitableName} ELSE {})
        g2 == [g1 EXCEPT !.controlPanel.view = "table",
                         !.controlPanel.buttons = names]
    IN /\ Assign(hideLoading(g2))
       /\ UNCHANGED <<selected, lastRead, launches, clicks, single, runs, world, call, ret, compare>>

\* ee.Number(1).evaluate of processBatch: processBatch(endIdx)
BatchCallback ==
  \E req \in PendingOf("batch") :
    /\ Assign(processBatch(Take(req), req.idx))
    /\ UNCHANGED <<selected, lastRead, launches, clicks, single, runs, world, call, ret, compare>>

\* the callback of a checkbox: updateRegion(); hideLoading()
UpdateRegionCallback ==
  \E req \in PendingOf("updateRegion") :
    /\ Assign(hideLoading(updateRegion(Take(req))))
    /\ UNCHANGED <<selected, lastRead, launches, clicks, single, runs, world, call, ret, compare>>

NextPage ==
  \/ Launch
  \/ Home
  \/ ViewTable
  \/ ClickCounty
  \/ GoBack
  \/ ToggleCheckbox
  \/ InitAreaCallback
  \/ BgAreaCallback
  \/ BgNextCallback
  \/ TableCallback
  \/ BatchCallback
  \/ UpdateRegionCallback

SpecPage == InitPage /\ [][NextPage]_vars

\* Region loading with the page in use: every request that is pending
\* eventually calls back, whatever the user does meanwhile.
PageCallback ==
  \/ InitAreaCallback
  \/ BgAreaCallback
  \/ BgNextCallback
  \/ TableCallback
  \/ BatchCallback
  \/ UpdateRegionCallback

LoadFairness == WF_vars(PageCallback)

SpecLoad == InitPage /\ [][NextPage]_vars /\ LoadFairness

\* ------------------------------------------------- regional comparison
\* createModule3: its local variables, the handlers of its buttons and the
\* callbacks of the requests they make. A geometry is the number of the
\* drawing that made it; a layer is <<name, region index>>.

\* years of the analyzeButton handler
AnalysisYears == {2020, 2021, 2022, 2023}
LastYear == 2023

\* the variables one click on Analyze closes over
Closure(regionIndex, geom) ==
  [regionIndex |-> regionIndex, region |-> geom, yearResults |-> {},
   high |-> FALSE, processedYears |-> 0, finished |-> 0]

\* the page globals and the variables of createModule3 as one record
Module3 ==
  [g |-> Globals,
   savedCompareGeometries |-> savedCompareGeometries,
   areaResults |-> areaResults, drawn |-> drawn,
   compareDisabled |-> compareDisabled, analyses |-> analyses,
   compareChartPanel |-> compareChartPanel,
   compareInfoPanel |-> compareInfoPanel, mapLayers |-> mapLayers]

AssignModule3(m) ==
  \E h \in {m} :
    /\ Assign(h.g)
    /\ savedCompareGeometries' = h.savedCompareGeometries
    /\ areaResults' = h.areaResults
    /\ drawn' = h.drawn
    /\ compareDisabled' = h.compareDisabled
    /\ analyses' = h.analyses
    /\ compareChartPanel' = h.compareChartPanel
    /\ compareInfoPanel' = h.compareInfoPanel
    /\ mapLayers' = h.mapLayers

\* showLoading(message); ee.Number(1).evaluate(function() { hideLoading(); })
Notify(m) ==
  [m EXCEPT !.g = evaluate(showLoading(m.g),
                           Request("hideLoading", 0, "", 0, 0, ""))]

\* areaResults['region' + k] = v
Put(results, k, v) ==
  [i \in DOMAIN results \cup {k} |-> IF i = k THEN v ELSE results[i]]

\* delete areaResults['region' + k]
Delete(results, k) == [i \in DOMAIN results \ {k} |-> results[i]]

\* compareChartPanel after finishProcessing adds the chart of a region
AddChart(charts, regionIndex) ==
  IF regionIndex = 1 THEN <<1>>
  ELSE Append(IF Len(charts) > 1 THEN SubSeq(charts, 1, 1) ELSE charts,
              regionIndex)

\* finishProcessing() of the click c
finishProcessing(m, c) ==
  LET a == m.analyses[c]
      allReady == AnalysisYears \subseteq a.yearResults /\ a.high
  IN IF ~allReady THEN m
     ELSE [m EXCEPT
             !.areaResults = Put(@, a.regionIndex,
                                 [click |-> c, region |-> a.region]),
             !.compareChartPanel = AddChart(@, a.regionIndex),
             !.compareInfoPanel = IF a.regionIndex = 1 THEN FALSE ELSE @,
             !.compareDisabled = IF a.regionIndex = 1 THEN @ ELSE FALSE,
             !.analyses[c].finished = @ + 1,
             !.g = evaluate(showLoading(hideLoading(m.g)),
                            Request("hideLoading", 0, "", 0, 0, ""))]

\* updateUI()
updateUI(m) ==
  [m EXCEPT
     !.compareDisabled = Cardinality(DOMAIN m.areaResults) < 2,
     !.compareChartPanel =
        IF Len(m.savedCompareGeometries) = 0 THEN << >> ELSE @,
     !.compareInfoPanel =
        IF Len(m.savedCompareGeometries) = 0 THEN FALSE ELSE @]

\* the layers the clearButton handler adds again for the regions it keeps;
\* mlOk are the regions whose analysis succeeds this time
RECURSIVE KeptLayers(_, _, _, _)
KeptLayers(i, n, results, mlOk) ==
  IF i > n THEN << >>
  ELSE <<<<"Comparison Region", i>>>>
       \o (IF i \in DOMAIN results
           THEN <<<<"Suitable Area 2023", i>>>>
                \o (IF i \in mlOk THEN <<<<"High Suitability Points", i>>>>
                    ELSE << >>)
                \o <<<<"Vineyard", i>>>>
           ELSE << >>)
       \o KeptLayers(i + 1, n, results, mlOk)

InitCompare ==
  /\ SingleIdle
  /\ runs = << >> /\ world = << >> /\ call = Null /\ ret = Null
  /\ CompareIdle
  \* startRegionalComparison()
  /\ currentPage = "regionalComparison"
  /\ controlPanel = [id |-> 1, view |-> "compare", widgets |-> {},
                     buttons |-> {}]
  /\ loadingLabel = FALSE /\ bgLoadingLabel = FALSE
  /\ currentCountyName = "Kent" /\ currentRegion = ""
  /\ regionNamesRaw = << >> /\ suitableNames = << >>
  /\ unsuitableNames = << >> /\ unsuitableGeomsList = << >>
  /\ finalRegionNames = << >>
  /\ backgroundLoadingInProgress = FALSE
  /\ pending = EmptyBag
  /\ selected = "" /\ lastRead = [value |-> "", selected |-> ""]
  /\ visits = << >> /\ finalized = {}
  /\ launches = 0 /\ clicks = 0

\* ---- user actions
\* 'Start Drawing Region', and the polygon the user then draws
DrawRegion ==
  /\ draws < MaxDraws
  /\ draws' = draws + 1
  /\ AssignModule3(Notify([Module3 EXCEPT !.drawn = draws + 1]))
  /\ UNCHANGED <<selected, lastRead, launches, clicks, single, runs, world, call, ret>>

\* 'Save Region'
SaveRegion ==
  /\ IF drawn = 0
     THEN /\ clicks < MaxClicks
          /\ clicks' = clicks + 1
          /\ AssignModule3(Notify(Module3))
     ELSE /\ AssignModule3(Notify(
               [Module3 EXCEPT
                  !.savedCompareGeometries = Append(@, drawn),
                  !.mapLayers =
                     Append(@, <<"Comparison Region",
                                 Len(savedCompareGeometries) + 1>>),
                  !.drawn = 0]))
          /\ UNCHANGED clicks
  /\ UNCHANGED <<draws, selected, lastRead, launches, single, runs, world, call, ret>>

\* the requests of the four years, in the order forEach makes them
RECURSIVE YearRequests(_, _, _)
YearRequests(g, c, ys) ==
  IF ys = {} THEN g
  ELSE LET y == CHOOSE z \in ys : \A w \in ys : z <= w
       IN YearRequests(evaluate(g, Request("year", c, "", y, 0, "")), c,
                       ys \ {y})

\* 'Analyze Selected Region'
AnalyzeRegion ==
  /\ IF Len(savedCompareGeometries) = 0
     THEN /\ clicks < MaxClicks
          /\ clicks' = clicks + 1
          /\ AssignModule3(Notify(Module3))
     ELSE /\ Len(analyses) < MaxAnalyses
          /\ LET regionIndex == Len(savedCompareGeometries)
                 c == Len(analyses) + 1
             IN AssignModule3(
                  [Module3 EXCEPT
                     !.g = YearRequests(showLoading(Globals), c, AnalysisYears),
                     !.analyses =
                        Append(@, Closure(regionIndex,
                                          savedCompareGeometries[regionIndex])),
                     !.mapLayers = @ \o <<<<"Suitable Area 2023", regionIndex>>,
                                          <<"Vineyard", regionIndex>>>>])
          /\ UNCHANGED clicks
  /\ UNCHANGED <<draws, selected, lastRead, launches, single, runs, world, call, ret>>

\* 'Clear'
ClearRegion ==
  /\ IF drawn # 0
     THEN AssignModule3(updateUI([Module3 EXCEPT !.drawn = 0]))
     ELSE IF Len(savedCompareGeometries) > 0
     THEN LET n == Len(savedCompareGeometries) - 1
              results == IF n >= 1 THEN Delete(areaResults, n + 1)
                         ELSE areaResults
          IN \E mlOk \in SUBSET (IF n >= 1 THEN DOMAIN results \cap 1..n
                                 ELSE {}) :
               AssignModule3(updateUI(
                 [Module3 EXCEPT
                    !.savedCompareGeometries = SubSeq(@, 1, n),
                    !.areaResults = results,
                    !.mapLayers =
                       <<UKLayer>>
                       \o (IF n >= 1 THEN KeptLayers(1, n, results, mlOk)
                           ELSE << >>)]))
     ELSE AssignModule3(updateUI(Module3))
  /\ UNCHANGED <<draws, selected, lastRead, launches, clicks, single, runs, world, call, ret>>

\* 'Compare Two Regions', which a disabled button does not deliver
CompareRegions ==
  /\ ~compareDisabled
  /\ clicks < MaxClicks
  /\ clicks' = clicks + 1
  /\ LET n == Len(savedCompareGeometries)
     IN IF Cardinality(DOMAIN areaResults) < 2
        THEN AssignModule3(Notify(Module3))
        ELSE IF (n - 1) \notin DOMAIN areaResults \/ n \notin DOMAIN areaResults
        THEN AssignModule3(Notify(
               [Module3 EXCEPT !.g = hideLoading(showLoading(Globals)),
                               !.compareInfoPanel = FALSE]))
        ELSE AssignModule3(
               [Module3 EXCEPT !.g = hideLoading(showLoading(Globals)),
                               !.compareInfoPanel = TRUE])
  /\ UNCHANGED <<draws, selected, lastRead, launches, single, runs, world, call, ret>>

\* ---- callbacks
\* the callback of the suitable area of one year
YearCallback ==
  \E req \in PendingOf("year") :
  \E success \in BOOLEAN :
    LET c == req.chain
        isLast == req.idx = LastYear
    IN
    \E m1 \in {[Module3 EXCEPT
                  !.g = Take(req),
                  !.analyses[c].yearResults = @ \cup {req.idx},
                  !.analyses[c].processedYears = @ + 1]} :
    \E m2 \in {IF ~isLast THEN m1
               ELSE IF success
               THEN [m1 EXCEPT
                       !.mapLayers =
                          Append(@, <<"High Suitability Points",
                                      m1.analyses[c].regionIndex>>),
                       !.g = evaluate(@, Request("high", c, "", 0, 0, ""))]
               ELSE finishProcessing([m1 EXCEPT !.analyses[c].high = TRUE],
                                     c)} :
      /\ (~isLast => success)
      /\ AssignModule3(IF m2.analyses[c].processedYears = Cardinality(AnalysisYears)
                       THEN finishProcessing(m2, c) ELSE m2)
      /\ UNCHANGED <<draws, selected, lastRead, launches, clicks, single, runs, world, call, ret>>

\* the callback of the high suitability area
HighCallback ==
  \E req \in PendingOf("high") :
    /\ AssignModule3(finishProcessing(
         [Module3 EXCEPT !.g = Take(req),
                         !.analyses[req.chain].high = TRUE], req.chain))
    /\ UNCHANGED <<draws, selected, lastRead, launches, clicks, single, runs, world, call, ret>>

\* ee.Number(1).evaluate(function() { hideLoading(); })
HideLoadingCallback ==
  \E req \in PendingOf("hideLoading") :
    /\ AssignModule3([Module3 EXCEPT !.g = hideLoading(Take(req))])
    /\ UNCHANGED <<draws, selected, lastRead, launches, clicks, single, runs, world, call, ret>>

NextCompare ==
  \/ DrawRegion
  \/ SaveRegion
  \/ AnalyzeRegion
  \/ ClearRegion
  \/ CompareRegions
  \/ YearCallback
  \/ HighCallback
  \/ HideLoadingCallback

SpecCompare == InitCompare /\ [][NextCompare]_vars

\* ------------------------------------------------------------ properties
IsPrefix(s, t) == Len(s) <= Len(t) /\ \A i \in 1..Len(s) : s[i] = t[i]
Executed(stage) == \E i \in 1..Len(stages) : stages[i] = stage
LastStage == IF stages = << >> THEN "none" ELSE stages[Len(stages)]
Returned == pc \in {"Return", "done"}
IsFailure(r) == "success" \in DOMAIN r /\ ~r.success
IsSuccess(r) == "success" \in DOMAIN r /\ r.success

\* the gate a run failed at, judged from the counts the run obtained
TooFewVineyards == vineyardCount \in 0..4
TooFewPositives == actualPositiveCount \in 0..4
TooFewNegatives == actualNegativeCount \in 0..4
TooFewRows == sampleCount \in 0..9
TooFewTraining == trainingCount \in 0..4 /\ testingCount # NotYet
TooFewTesting == testingCount \in 0..4
GateFailed ==
  \/ TooFewVineyards \/ TooFewPositives \/ TooFewNegatives
  \/ TooFewRows \/ TooFewTraining \/ TooFewTesting

\* C1: whenever a run has failed at a gate (vineyards, positives, negatives,
\* extracted rows, training or testing size), mlResults has success = false and
\* carries a non-null suitabilityMask that is the mask computeSuitabilityMask
\* gave for the factors of this run, and the returned object carries the same
\* mask at top level.
C1_FallbackMask ==
  GateFailed =>
    /\ Returned
    /\ IsFailure(mlResults)
    /\ "suitabilityMask" \in DOMAIN mlResults
    /\ mlResults.suitabilityMask # NoImage
    /\ mlResults.suitabilityMask = suitabilityMask
    /\ mlResults.suitabilityMask = computeSuitabilityMask(factors)
    /\ pc = "done" => result.suitabilityMask = mlResults.suitabilityMask

\* a run failed at the extraction gate on a region with a suitable pixel
C1_Witness ==
  /\ pc = "done"
  /\ TooFewRows
  /\ ~result.mlResults.success
  /\ \E p \in Pixels : result.mlResults.suitabilityMask[p]

\* C2: once a gate has failed, the failing gate's stage is the last stage the
\* run executes: nothing is sampled, extracted, trained, evaluated or scored
\* afterwards and the run is on its way out with a Failure.
C2_ShortCircuit ==
  /\ TooFewVineyards => LastStage = "VineyardCount"
  /\ TooFewPositives => LastStage = "Positives"
  /\ TooFewNegatives => LastStage = "Negatives"
  /\ TooFewRows => LastStage = "ExtractFeatures"
  /\ (TooFewTraining \/ TooFewTesting) => LastStage = "Split"
  /\ GateFailed =>
       /\ Returned
       /\ IsFailure(mlResults)
       /\ ~Executed("TrainEvaluate") /\ ~Executed("Score")
       /\ validation = Null /\ accuracy = Null
       /\ "suitabilityScore" \notin DOMAIN mlResults
       /\ "highSuitabilityAreas" \notin DOMAIN mlResults
       /\ "area" \notin DOMAIN mlResults

\* a run that failed at the negative-sample gate has ended
C2_Witness ==
  /\ pc = "done"
  /\ TooFewNegatives
  /\ stages = <<"BuildFactors", "BuildMask", "VineyardCount", "Positives", "Negatives">>

\* the order of the stages; the split is the first step of Train/Evaluate
StagePlan ==
  <<"BuildFactors", "BuildMask", "VineyardCount", "Positives", "Negatives",
    "ExtractFeatures", "Split", "TrainEvaluate", "Score">>

\* C3: the stages run in the order BuildFactors, BuildMask, vineyard count,
\* positives, negatives, ExtractFeatures, Train/Evaluate, Score, none twice,
\* and a stage has started only if every count gate before it was resolved
\* and passed.
C3_StageOrder ==
  /\ IsPrefix(stages, StagePlan)
  /\ Executed("Positives") => vineyardCount >= 5
  /\ Executed("Negatives") => actualPositiveCount >= 5
  /\ Executed("ExtractFeatures") => actualNegativeCount >= 5
  /\ Executed("Split") => sampleCount >= 10
  /\ Executed("TrainEvaluate") => trainingCount >= 5 /\ testingCount >= 5

\* a run went through every stage
C3_Witness == pc = "done" /\ stages = StagePlan /\ result.mlResults.success

AllGatesPass ==
  /\ vineyardCount >= 5 /\ actualPositiveCount >= 5 /\ actualNegativeCount >= 5
  /\ sampleCount >= 10 /\ trainingCount >= 5 /\ testingCount >= 5

\* C4 as stated: a run ends with Success exactly when every gate passes and
\* no error is raised.
C4_Original ==
  pc = "done" => (IsSuccess(result.mlResults) <=> (AllGatesPass /\ raised = "none"))

\* C4 amended: a run ends with Success exactly when every gate passes and no
\* error is raised by one of the six count evaluations; an error raised while
\* the accuracy is computed is caught there and does not prevent Success.  A
\* region with at least 10 vineyards whose counts pass every gate yields
\* Success.
C4_SuccessIffGates ==
  pc = "done" =>
    /\ IsSuccess(result.mlResults) <=> (AllGatesPass /\ raised \in {"none", "accuracy"})
    /\ (vineyardCount >= 10 /\ AllGatesPass /\ raised \in {"none", "accuracy"})
         => IsSuccess(result.mlResults)

\* a region with 10 vineyards passed every gate and the run returned Success
C4_Witness ==
  /\ pc = "done"
  /\ vineyardCount >= 10 /\ AllGatesPass
  /\ raised = "accuracy"
  /\ result.mlResults.success

\* C5 as stated: every data-insufficiency or numeric-instability condition and
\* every error raised in the ML steps ends as a returned Failure with a reason
\* and the fallback mask, never as an exception or a missing result.
C5_Original ==
  /\ pc # "thrown"
  /\ (pc = "done" /\ (GateFailed \/ raised # "none" \/ matrixAccuracy = NaN)) =>
       /\ IsFailure(result.mlResults)
       /\ {"error", "suitabilityMask"} \subseteq DOMAIN result.mlResults

\* C5 amended: no condition leaves analyzeSuitability as an exception or
\* without a result.  Every data-insufficiency condition and every error
\* raised by a count evaluation ends as a returned Failure with a reason and
\* the fallback mask; a NaN accuracy and an error raised while the accuracy is
\* computed are recovered inside runMachineLearning, which then returns
\* Success with a finite accuracy.
C5_NoException ==
  /\ pc # "thrown"
  /\ pc = "done" =>
       /\ result # Null
       /\ result.mlResults # Null
       /\ (GateFailed \/ raised \notin {"none", "accuracy"}) =>
            /\ IsFailure(result.mlResults)
            /\ {"error", "suitabilityMask"} \subseteq DOMAIN result.mlResults
            /\ result.mlResults.error \in {Reason(c) : c \in Causes} \cup {ErrorMessage}
            /\ result.mlResults.suitabilityMask = suitabilityMask
       /\ (~GateFailed /\ (raised = "accuracy" \/ matrixAccuracy = NaN)) =>
            /\ IsSuccess(result.mlResults)
            /\ result.mlResults.accuracy.kind = "number"

\* the count of extracted rows could not be evaluated and the run returned a
\* Failure carrying the error's message
C5_Witness ==
  /\ pc = "done"
  /\ raised = "sampleCount"
  /\ ~result.mlResults.success
  /\ result.mlResults.error = ErrorMessage

ScoreFields == {"suitabilityScore", "highSuitabilityAreas", "area", "accuracy", "importance"}
FailureFields == {"error", "suitabilityMask"}

\* C6: every value runMachineLearning returns is a Success (success = true,
\* the five score fields present, neither error nor fallback mask) or a
\* Failure (success = false, error and fallback mask present, no score field),
\* and the object analyzeSuitability returns carries region, year, factors,
\* suitabilityMask and mlResults.
C6_SumType ==
  /\ Returned =>
       /\ "success" \in DOMAIN mlResults
       /\ mlResults.success =>
            /\ ScoreFields \subseteq DOMAIN mlResults
            /\ FailureFields \cap DOMAIN mlResults = {}
            /\ mlResults.accuracy # Null
            /\ mlResults.suitabilityScore # NoImage
            /\ mlResults.highSuitabilityAreas # NoImage
       /\ ~mlResults.success =>
            /\ FailureFields \subseteq DOMAIN mlResults
            /\ ScoreFields \cap DOMAIN mlResults = {}
            /\ mlResults.suitabilityMask # NoImage
  /\ pc = "done" =>
       /\ {"region", "year", "factors", "suitabilityMask", "mlResults"} \subseteq DOMAIN result
       /\ result.mlResults = mlResults
       /\ result.factors # NoImage /\ result.suitabilityMask # NoImage

\* a run returned a Failure from the split gate inside a complete result
C6_Witness ==
  /\ pc = "done"
  /\ TooFewTesting
  /\ DOMAIN result.mlResults = {"success", "error", "suitabilityMask"}

\* C7: with fewer than 5 vineyards in the region the run returns a Failure
\* with the reason "Insufficient vineyard data in the selected region for
\* machine learning prediction" and a non-null fallback mask, and no sample
\* point is generated.
C7_VineyardGate ==
  TooFewVineyards =>
    /\ Returned
    /\ IsFailure(mlResults)
    /\ mlResults.error = "Insufficient vineyard data in the selected region for machine learning prediction"
    /\ mlResults.suitabilityMask # NoImage
    /\ ~Executed("Positives") /\ ~Executed("Negatives")
    /\ positivePointCount = NotYet
    /\ actualPositiveCount = NotYet /\ actualNegativeCount = NotYet

\* a region with 3 vineyards was analysed to the end
C7_Witness == pc = "done" /\ vineyardCount = 3 /\ ~result.mlResults.success

\* the data-insufficiency cause of a failed run, from the counts it obtained
Cause ==
  CASE TooFewVineyards -> "vineyards"
    [] TooFewPositives -> "positives"
    [] TooFewNegatives -> "negatives"
    [] TooFewRows -> "rows"
    [] TooFewTraining -> "training"
    [] TooFewTesting -> "testing"
    [] OTHER -> "none"

\* C8 as stated: the reason a Failure carries is the reason of no other
\* cause, for each of the six causes.
C8_Original ==
  (pc = "done" /\ Cause # "none") =>
    \A c \in Causes \ {Cause} : Reason(c) # result.mlResults.error

\* C8 amended: too few vineyards, positives, negatives and extracted rows each
\* have a reason string of their own; too few training rows and too few test
\* rows share one reason string, which differs from the other four.
C8_DistinctReasons ==
  (pc = "done" /\ Cause # "none") =>
    /\ result.mlResults.error = Reason(Cause)
    /\ \A c \in Causes \ {Cause} :
         Reason(c) = result.mlResults.error => {c, Cause} = {"training", "testing"}

\* a run failed because too few rows fell into the training split
C8_Witness == pc = "done" /\ Cause = "training" /\ ~result.mlResults.success

IsFinite01(a) == a.kind = "number" /\ a.den > 0 /\ a.num >= 0 /\ a.num <= a.den

\* C9: once Train/Evaluate has run, the accuracy is a finite number in [0,1]
\* and not NaN, also when the test rows are all of class 0 and the error
\* matrix gives NaN; the Success object carries that accuracy.
C9_AccuracyFinite ==
  /\ Executed("TrainEvaluate") => IsFinite01(accuracy)
  /\ (Returned /\ IsSuccess(mlResults)) => IsFinite01(mlResults.accuracy)

\* the test rows were all of class 0, the error matrix gave NaN, and the run
\* returned Success
C9_Witness ==
  /\ pc = "done"
  /\ validation # Null /\ validation.ones = 0
  /\ matrixAccuracy = NaN
  /\ result.mlResults.success

\* C10: when the error-matrix accuracy is NaN, the returned accuracy is the
\* number of test rows predicted as their class divided by the number of test
\* rows; it is the default 0 only when computing the accuracy raised an error.
C10_ManualAccuracy ==
  (Executed("TrainEvaluate") /\ matrixAccuracy = NaN /\ raised = "none") =>
    /\ accuracy.kind = "number"
    /\ accuracy.num * validation.total = validation.correct * accuracy.den
    /\ accuracy.num = 0 => validation.correct = 0


\* ---- analyses side by side (SpecRuns)
RunDone(r) == runs[r].pc = "done"
SameInputs(a, b) ==
  runs[a].region = runs[b].region /\ runs[a].year = runs[b].year
GateCounts(l) ==
  <<l.vineyardCount, l.actualPositiveCount, l.actualNegativeCount,
    l.sampleCount, l.trainingCount, l.testingCount>>
Outcome(l) ==
  IF l.mlResults.success THEN <<"Success", "">>
  ELSE <<"Failure", l.mlResults.error>>

RECURSIVE Trajectory(_, _, _)
Trajectory(l, w, run) ==
  IF l.pc = "done" THEN {l}
  ELSE {l} \cup Trajectory(StepRun(l, w, run), w, run)

\* the result of a run that is the only analysis
RECURSIVE Alone(_, _, _)
Alone(l, w, run) ==
  IF l.pc = "done" THEN l.result ELSE Alone(StepRun(l, w, run), w, run)

Called(fn) == call # Null /\ call.fn = fn /\ ret # Null

\* C13: for every pixel the mask returned by computeSuitabilityMask is true
\* exactly when 14.0 <= gst <= 16.0 (tenths of a degree), 950 <= gdd <= 1250,
\* 250 <= gsp <= 600, 2 <= slope <= 15 and 5 <= elevation <= 250, and it is
\* the same for every other aspect and latitude of the pixel.
C13_RangeTests ==
  Called("computeSuitabilityMask") =>
    \A p \in Pixels :
      LET f == call.factors[p] IN
        /\ ret.value[p] =
             (/\ 140 <= f.gst /\ f.gst <= 160
              /\ 950 <= f.gdd /\ f.gdd <= 1250
              /\ 250 <= f.gsp /\ f.gsp <= 600
              /\ 2 <= f.slope /\ f.slope <= 15
              /\ 5 <= f.elevation /\ f.elevation <= 250)
        /\ \A a \in AspectSamples : \A l \in LatitudeSamples :
             computeSuitabilityMask(
               [call.factors EXCEPT ![p].aspect = a, ![p].latitude = l])[p]
             = ret.value[p]

\* a pixel with every factor on a bound of its range, and the mask true there
C13_Witness ==
  /\ Called("computeSuitabilityMask")
  /\ \E p \in Pixels :
       /\ call.factors[p].gst = GstMax /\ call.factors[p].gdd = GddMin
       /\ call.factors[p].gsp = GspMax /\ call.factors[p].slope = SlopeMin
       /\ call.factors[p].elevation = ElevationMax
       /\ ret.value[p]


Wider(rg, than) == rg[1] <= than[1] /\ rg[2] >= than[2]

\* C14: for any factors, when the range of one factor is replaced by a wider
\* one (lower bound not higher, upper bound not lower), every pixel that is
\* true in the mask of the code's ranges is true in the new mask; the mask of
\* the code's ranges is the one computeSuitabilityMask returns.
C14_Monotonic ==
  Called("replaceRange") =>
    /\ ret.narrow = computeSuitabilityMask(call.factors)
    /\ Wider(call.range, CodeRanges[call.factor]) =>
         \A p \in Pixels : ret.narrow[p] => ret.wide[p]

\* a strictly wider range under which a pixel that was false became true,
\* while a pixel that was true stayed true
C14_Witness ==
  /\ Called("replaceRange")
  /\ Wider(call.range, CodeRanges[call.factor])
  /\ call.range # CodeRanges[call.factor]
  /\ \E p \in Pixels : ~ret.narrow[p] /\ ret.wide[p]
  /\ \E p \in Pixels : ret.narrow[p] /\ ret.wide[p]


\* C15: the value computeArea returns is never negative, and it is 0 when the
\* mask is 0 on every pixel of the region.
C15_AreaNonNegative ==
  Called("computeArea") =>
    /\ ret.value >= 0
    /\ (\A p \in call.region : call.mask[p] = 0) => ret.value = 0

\* a region with pixels, the mask 0 on all of them although 1 outside the
\* region, and the area 0
C15_Witness ==
  /\ Called("computeArea")
  /\ call.region # {}
  /\ \A p \in call.region : call.mask[p] = 0
  /\ \E p \in Pixels : call.mask[p] = 1
  /\ ret.value = 0

\* the square metres of the pixels of S on which image m is 1
SquareMetres(m, S) == Cardinality({p \in S : m[p] = 1}) * 62500

\* q is exactly n / d
IsQuotient(q, n, d) == n % d = 0 /\ q = n \div d

\* C16 as stated: the value returned is the sum in square metres divided
\* by 1e6.
C16_Original ==
  /\ Called("computeArea") =>
       IsQuotient(ret.value, SquareMetres(call.mask, call.region), 1000000)
  /\ Called("areaCalculation") =>
       IsQuotient(ret.value, SquareMetres(HighSuitability(call.score), Pixels),
                  1000000)

\* C16: the value computeArea returns and the Scorer's area are the sum over
\* the region of mask pixel value times pixel area in square metres, not
\* divided; the caller that charts computeArea's value divides it by 1e6.
C16_AreaSquareMetres ==
  /\ Called("computeArea") =>
       /\ ret.value = SquareMetres(call.mask, call.region)
       /\ ret.area_km2 = Number(SquareMetres(call.mask, call.region), 1000000)
  /\ Called("areaCalculation") =>
       ret.value = SquareMetres(HighSuitability(call.score), Pixels)

\* a mask that is 1 on a pixel of the region and an area that is not 0
C16_Witness ==
  /\ Called("computeArea")
  /\ \E p \in call.region : call.mask[p] = 1
  /\ ret.value > 0


\* C17: in twentieths of a degree-day, the GDD of a month with raw tmax x
\* and raw tmin n is 30 * (x + n - 200) when the mean (x + n) / 20 is above
\* 10 and 0 otherwise, i.e. max(0, tmean - 10) * 30; the season GDD is the
\* sum of the monthly values and never negative; raw 200 and 100 give 150.
C17_GDD ==
  Called("computeGDD") =>
    /\ \A i \in DOMAIN call.months :
         LET x == call.months[i].tmmx
             n == call.months[i].tmmn
         IN /\ ret.monthly[i] = IF x + n > 200 THEN 30 * (x + n - 200) ELSE 0
            /\ (x = 200 /\ n = 100) => ret.monthly[i] = 150 * 20
    /\ ret.value = SumOver(ret.monthly, DOMAIN ret.monthly)
    /\ ret.value >= 0

\* a season with a month of raw 200 / 100 and a month colder than the base:
\* the cold month adds 0 and the season GDD is 150
C17_Witness ==
  /\ Called("computeGDD")
  /\ \E i \in DOMAIN call.months : call.months[i].tmmx = 200 /\ call.months[i].tmmn = 100
  /\ \E i \in DOMAIN call.months : call.months[i].tmmx + call.months[i].tmmn < 200
  /\ ret.value = 150 * 20


\* C18: every row of the table is in exactly one of training and testing;
\* it is in training exactly when its random value is below 0.7, so a row at
\* exactly 0.7 is in testing; with fewer than 5 training rows or fewer than 5
\* testing rows the run returns the split failure, otherwise it goes on to
\* training the classifier.
C18_Partition ==
  Called("split") =>
    /\ ret.training \cap ret.testing = {}
    /\ ret.training \cup ret.testing = DOMAIN call.rows
    /\ \A i \in DOMAIN call.rows :
         /\ (i \in ret.training) = (call.rows[i] < 7)
         /\ call.rows[i] = 7 => i \in ret.testing
    /\ (Cardinality(ret.training) < 5 \/ Cardinality(ret.testing) < 5) =>
         (ret.next = "Return" /\ ret.error = ErrSplit)
    /\ (Cardinality(ret.training) >= 5 /\ Cardinality(ret.testing) >= 5) =>
         ret.next = "TrainEvaluate"

\* exactly 5 training rows and 5 testing rows, one of them because its random
\* value is exactly 0.7, and the run goes on to training
C18_Witness ==
  /\ Called("split")
  /\ Cardinality(ret.training) = 5 /\ Cardinality(ret.testing) = 5
  /\ \E i \in ret.testing : call.rows[i] = 7
  /\ \E i \in ret.testing : call.rows[i] > 7
  /\ ret.next = "TrainEvaluate"


\* ---- the sample gates (Spec)
\* C19: a realized positive count below 5 ends the run with the positive
\* failure before the negatives are drawn; with 5 or more positives the
\* negatives are drawn, at most 400 of them, and a realized negative count
\* below 5 ends the run with the negative failure before feature extraction;
\* with 5 or more of each the run goes on to feature extraction.
C19_SampleGates ==
  /\ actualPositiveCount \in 0..4 =>
       /\ Returned /\ IsFailure(mlResults) /\ mlResults.error = ErrPositive
       /\ actualNegativeCount = NotYet /\ ~Executed("Negatives")
  /\ actualPositiveCount >= 5 => (pc = "Negatives" \/ Executed("Negatives"))
  /\ actualNegativeCount # NotYet =>
       (actualPositiveCount >= 5 /\ actualNegativeCount <= 400)
  /\ actualNegativeCount \in 0..4 =>
       /\ Returned /\ IsFailure(mlResults) /\ mlResults.error = ErrNegative
       /\ ~Executed("ExtractFeatures")
  /\ (actualPositiveCount >= 5 /\ actualNegativeCount >= 5) =>
       (pc = "ExtractFeatures" \/ Executed("ExtractFeatures"))

\* exactly 5 positives and exactly 5 negatives, and feature extraction was run
C19_Witness ==
  /\ actualPositiveCount = 5 /\ actualNegativeCount = 5
  /\ Executed("ExtractFeatures")


PointsOfClass(c) == {i \in DOMAIN call.points : call.points[i].class = c}

\* C20: with at least 5 positive and 5 negative points merged, the run
\* returns the extraction failure when fewer than 10 rows are extracted and
\* goes on to the split with 10 or more; every extracted row has the class
\* of the point it came from, and no point gives two rows.
C20_Extraction ==
  (Called("sampleRegions")
   /\ Cardinality(PointsOfClass(1)) >= 5 /\ Cardinality(PointsOfClass(0)) >= 5) =>
    /\ \A r \in ret.rows :
         /\ r.point \in DOMAIN call.points
         /\ r.class = call.points[r.point].class
    /\ \A r1 \in ret.rows : \A r2 \in ret.rows : r1.point = r2.point => r1 = r2
    /\ ret.sampleCount = Cardinality(ret.rows)
    /\ ret.sampleCount < 10 => (ret.next = "Return" /\ ret.error = ErrExtraction)
    /\ ret.sampleCount >= 10 => ret.next = "Split"

\* 5 positive and 5 negative points, one without data: 9 rows of both
\* classes and the extraction failure
C20_Witness ==
  /\ Called("sampleRegions")
  /\ Cardinality(PointsOfClass(1)) = 5 /\ Cardinality(PointsOfClass(0)) = 5
  /\ ret.sampleCount = 9
  /\ \E r \in ret.rows : r.class = 1
  /\ \E r \in ret.rows : r.class = 0
  /\ ret.next = "Return" /\ ret.error = ErrExtraction

\* C21: every positive point has class 1 and lies on a pixel of the vineyard
\* geometry; every negative point has class 0 and lies on a pixel where the
\* suitability mask is false.
C21_SampleClasses ==
  Called("samplePoints") =>
    /\ \A pt \in ret.positive :
         pt.class = 1 /\ pt.pixel \in call.vineyardGeometry
    /\ \A pt \in ret.negative :
         pt.class = 0 /\ ~call.mask[pt.pixel]

\* C22: for every vineyardCount >= 5 the number of positive points requested
\* is 10 per vineyard up to 20 vineyards and 200 beyond, i.e.
\* min(vineyardCount * 10, 200), and never below 50.
C22_PositiveRequest ==
  (Called("positivePointCount") /\ call.vineyardCount >= 5) =>
    /\ call.vineyardCount <= 20 => ret.value = call.vineyardCount * 10
    /\ call.vineyardCount > 20 => ret.value = 200
    /\ ret.value >= 50 /\ ret.value <= 200

\* more than 20 vineyards and the request capped at 200
C22_Witness ==
  /\ Called("positivePointCount")
  /\ call.vineyardCount > 20
  /\ ret.value = 200

\* ---- the scorer (Spec)
\* C23: in a Success result a pixel of highSuitabilityAreas is 1 exactly when
\* the suitabilityScore of the same result is above 0.7 at that pixel
\* (tenths: above 7), so a score of exactly 0.7 is excluded.
C23_HighSuitability ==
  IsSuccess(mlResults) =>
    /\ DOMAIN mlResults.highSuitabilityAreas = DOMAIN mlResults.suitabilityScore
    /\ \A p \in DOMAIN mlResults.suitabilityScore :
         (mlResults.highSuitabilityAreas[p] = 1) = (mlResults.suitabilityScore[p] > 7)
    /\ \A p \in DOMAIN mlResults.suitabilityScore :
         mlResults.highSuitabilityAreas[p] \in {0, 1}

\* a Success whose score is exactly 0.7 on one pixel, excluded, and above 0.7
\* on another, included
C23_Witness ==
  /\ IsSuccess(mlResults)
  /\ \E p \in Pixels :
       mlResults.suitabilityScore[p] = 7 /\ mlResults.highSuitabilityAreas[p] = 0
  /\ \E p \in Pixels :
       mlResults.suitabilityScore[p] > 7 /\ mlResults.highSuitabilityAreas[p] = 1

\* ---- the grape analysis page (SpecPage)
LoadPending ==
  PendingOf("initArea") \cup PendingOf("bgArea") \cup PendingOf("bgNext") # {}

\* C24: what a user-triggered handler read from currentCountyName is the
\* county the user selected last (initially the first-loaded county), and
\* when no area request of the background loading is pending
\* currentCountyName is that county: a callback that restores the saved name
\* has not overwritten the selection.
C24_ViewedCounty ==
  /\ lastRead.value = lastRead.selected
  /\ (launches > 0 /\ PendingOf("initArea") \cup PendingOf("bgArea") = {}) =>
       currentCountyName = selected

\* C25: when finalizeRegionLists has run and no request of a loading chain is
\* pending, suitableNames and unsuitableNames together hold every name of
\* regionNamesRaw exactly once, and unsuitableGeomsList has one geometry per
\* unsuitable name.
C25_ClassifiedOnce ==
  (finalized # {} /\ ~LoadPending) =>
    LET all == suitableNames \o unsuitableNames IN
      /\ Len(all) = Len(regionNamesRaw)
      /\ \A i \in 1..Len(regionNamesRaw) :
           Cardinality({j \in 1..Len(all) : all[j] = regionNamesRaw[i]}) = 1
      /\ Len(unsuitableGeomsList) = Len(unsuitableNames)
      /\ \A j \in 1..Len(unsuitableNames) :
           unsuitableGeomsList[j] = unsuitableNames[j]

\* C27: whenever loadingLabel is non-null, the label is a widget of the
\* current controlPanel.
C27_LabelInPanel ==
  loadingLabel => "loadingLabel" \in controlPanel.widgets

\* the indices of names in increasing order, without skipIdx
RECURSIVE IndicesFrom(_, _, _)
IndicesFrom(i, n, skipIdx) ==
  IF i >= n THEN << >>
  ELSE IF i = skipIdx THEN IndicesFrom(i + 1, n, skipIdx)
  ELSE <<i>> \o IndicesFrom(i + 1, n, skipIdx)

Chains == 1..MaxLaunches
Started(c) == launches >= c

\* C30: if every request eventually calls back, the chain of every launch
\* eventually calls finalizeRegionLists; the indices it loads are, in order,
\* those of regionNamesRaw without the index of the county loaded first; and
\* in the state finalizeRegionLists leaves, backgroundLoadingInProgress is
\* false and the background loading label is removed from controlPanel.
C30_LoadTerminates ==
  /\ \A c \in Chains : Started(c) ~> (c \in finalized)
  /\ [](\A c \in Chains :
          Started(c) =>
            LET order == IndicesFrom(0, Len(CountyNames), KentIndex(CountyNames))
            IN /\ IsPrefix(visits[c], order)
               /\ c \in finalized => visits[c] = order)
  /\ [][\A c \in Chains :
          (c \notin finalized /\ c \in finalized') =>
            /\ ~backgroundLoadingInProgress'
            /\ ~bgLoadingLabel'
            /\ "bgLoadingLabel" \notin controlPanel'.widgets]_vars

\* the chain of a launch has loaded the first and the third county, skipped
\* the second, and finalized; the flag is false and the label is gone
C30_Witness ==
  /\ 1 \in finalized
  /\ visits[1] = <<0, 2>>
  /\ Len(suitableNames) + Len(unsuitableNames) = 3
  /\ ~backgroundLoadingInProgress /\ ~bgLoadingLabel

\* C26: for each click on Analyze, finishProcessing stores the results and
\* renders the chart at most once, and not before the four yearly areas and
\* the 2023 high suitability area of that click are available.
C26_FinishOnce ==
  \A c \in 1..Len(analyses) :
    /\ analyses[c].finished <= 1
    /\ analyses[c].finished >= 1 =>
         (AnalysisYears \subseteq analyses[c].yearResults /\ analyses[c].high)

\* C28: every key 'region k' of areaResults has k within the saved regions
\* and holds results computed for the geometry saved at position k.
C28_ResultsOfSaved ==
  \A k \in DOMAIN areaResults :
    /\ k <= Len(savedCompareGeometries)
    /\ areaResults[k].region = savedCompareGeometries[k]

\* C29: the compare button is enabled exactly when areaResults holds at
\* least two entries.
C29_CompareEnabled ==
  ~compareDisabled <=> Cardinality(DOMAIN areaResults) >= 2

====
